---- MODULE Spec2Model ----
(***************************************************************************)
(* State-machine model of the two-tier cache of the City Service API       *)
(* (src/app/cache.py): LocalLRUCache, RedisCache and CacheManager.         *)
(*                                                                         *)
(* The OrderedDict of LocalLRUCache is a sequence of items, least recently *)
(* used first.  time.time() is the variable now, advanced by Tick.         *)
(* CacheItem.access_count and CacheItem.last_accessed are written by       *)
(* update_access and read only by the debugging view get_cache_contents;   *)
(* no operation of the cache branches on them, so they are left out.       *)
(***************************************************************************)
EXTENDS Integers, Sequences, FiniteSets, Bags

\* ------------------------------------------------------------------ bounds
\* Largest max_size a LocalLRUCache is constructed with.
MaxSize == 2
\* ttl, in clock ticks.
TTL == 1
\* Cap of hits + misses and of evictions.
MaxCount == 2

\* Cap of the CacheManager calls begun.
MaxCalls == 2
\* The capacity of KafkaLogger._message_queue, standing for maxsize=10000.
MaxQueue == 2
\* Cap of the KafkaLogger calls begun.
MaxKafkaCalls == 3
\* The requests the service takes.
MaxRequests == 2
\* The delivery workers left running by an initialize that replaces them.
MaxOrphans == 1
\* KafkaLogger.max_retries.
max_retries == 5
\* KafkaLogger.current_retries, which no method assigns.
current_retries == 0

\* The clock runs until an entry set at time 0 has expired.
MaxTime == TTL + 1

Keys == {"k1", "k2", "k3"}
Values == {"v1", "v2"}
\* The keys CacheManager is called with, and the tasks that call it.
MgrKeys == {"k1", "k2"}
Tasks == {"t1", "t2"}
\* Python's None, True and False, as returned by a call
None == "None"
True == "True"
False == "False"

VARIABLES
    max_size,     \* LocalLRUCache.max_size
    cache,        \* LocalLRUCache.cache: items in recency order, LRU first
    hits,         \* LocalLRUCache.hits
    misses,       \* LocalLRUCache.misses
    evictions,    \* LocalLRUCache.evictions
    expirations,  \* LocalLRUCache.expirations
    now,          \* time.time()
    last,         \* the last completed LocalLRUCache call and what it returned
    touched,      \* history: the stored keys in the order of their most recent touch
    setAt,        \* history: the time of each stored key's most recent set, else -1
    gets,         \* history: the get calls completed since __init__ or clear
    fresh,        \* history: the keys set since __init__ or clear, while nothing
                  \* but sets of keys not set before has been called; else Broken
    connected,        \* RedisCache.connected
    redis_client,     \* RedisCache.redis_client is not None
    connection_pool,  \* RedisCache.connection_pool is not None
    remote,       \* the Redis server: key -> the value stored and when it was set
    tasks,        \* per task: the CacheManager call it is in
    done,         \* history: the CacheManager call completed last
    calls,        \* the CacheManager calls begun
    writtenAt,    \* history: per key the time of the most recent
                  \* CacheManager.set, -1 when there was none
    producer,       \* KafkaLogger.producer is not None
    kconnected,     \* KafkaLogger.connected
    message_queue,  \* KafkaLogger._message_queue: the events queued, oldest first
    queue_task,     \* KafkaLogger._queue_task: the delivery worker, where it is
                    \* suspended and the event it holds
    total_requests, \* KafkaLogger.total_requests
    cache_hits,     \* KafkaLogger.cache_hits
    cache_misses,   \* KafkaLogger.cache_misses
    init,           \* the KafkaLogger.initialize call under way
    closing,        \* the KafkaLogger.close call under way
    sends,          \* the _send_message calls of callers under way
    kcalls,         \* history: the KafkaLogger calls begun
    drops,          \* history: the events dropped on a full queue
    delivered,      \* history: the events the broker has taken, in order
    attempted,      \* history: the events whose send has begun, a bag
    accepted,       \* history: the events the queue has taken, in order
    kdone,          \* history: the KafkaLogger call completed last
    db,           \* the cities table: city -> country_code, None without a row
    reqs,         \* per task: the request its handler is serving
    arrived,      \* history: the requests that have arrived
    posted,       \* history: per city the code the store holds, once a POST or
                  \* DELETE of the city has ended and none is under way
    rdone,        \* history: the request answered last
    lock,         \* LocalLRUCache._lock: the tasks that hold it
    ltasks,       \* per task: the LocalLRUCache call it is in
    access        \* history: the last access to the cache's state and whether
                  \* the task held the lock

histVars == <<touched, setAt, gets, fresh>>
localVars == <<max_size, cache, hits, misses, evictions, expirations, last,
               histVars>>
redisVars == <<connected, redis_client, connection_pool>>
mgrVars == <<redisVars, remote, tasks, done, calls, writtenAt>>
metricVars == <<total_requests, cache_hits, cache_misses>>
kafkaVars == <<producer, kconnected, message_queue, queue_task, metricVars,
               init, closing, sends, kcalls, drops, delivered, attempted,
               accepted, kdone>>
apiVars == <<db, reqs, arrived, posted, rdone>>
lockVars == <<lock, ltasks, access>>
vars == <<max_size, cache, hits, misses, evictions, expirations, now, last,
          histVars, mgrVars, kafkaVars, apiVars, lockVars>>

\* ------------------------------------------------------- sequence helpers
\* The subsequence of key sequence s whose keys are in set S.
SelectKeys(s, S) == SelectSeq(s, LAMBDA x : x \in S)

Range(s) == {s[i] : i \in 1..Len(s)}

\* list(self.cache.keys())
KeysOf(c) == [i \in 1..Len(c) |-> c[i].key]
KeySet(c) == {c[i].key : i \in 1..Len(c)}

\* key in self.cache
Contains(c, k) == \E i \in 1..Len(c) : c[i].key = k

\* self.cache[key]
Item(c, k) == c[CHOOSE i \in 1..Len(c) : c[i].key = k]

\* a del that removes the first item whatever the key
DelKeyFirst(c, k) == Tail(c)

\* del self.cache[key]
DelKey(c, k) == SelectSeq(c, LAMBDA it : it.key # k)

\* self.cache.move_to_end(key)
MoveToEnd(c, k) == DelKey(c, k) \o <<Item(c, k)>>

\* popitem(last=True): removes the most recently used item
PopItemLast(c) == SubSeq(c, 1, Len(c) - 1)

\* self.cache.popitem(last=False): removes the first item
PopItemFirst(c) == Tail(c)

\* an expiry test with >= for >
IsExpiredAtTtl(item, t) == t - item.timestamp >= TTL

\* CacheItem.is_expired(ttl), with time.time() = t
IsExpired(item, t) == t - item.timestamp > TTL

\* CacheItem(value, current_time), stored under key k
NewItem(k, v, t) == [key |-> k, value |-> v, timestamp |-> t]

\* item.value = value; item.timestamp = current_time
UpdateItem(item, v, t) == [item EXCEPT !.value = v, !.timestamp = t]

\* a capacity test with > for >=
AtCapacityOffByOne(c, n) == Len(c) > n

\* len(self.cache) >= self.max_size
AtCapacity(c, n) == Len(c) >= n

\* ------------------------------------------------------------- history
Broken == <<"broken">>

\* The history after a call op(k) that returned ret and left the keys of
\* the set Stored stored.
History(op, k, ret, Stored) ==
    \E K \in {Stored} :
      /\ touched' = IF op = "set" \/ (op = "get" /\ ret # None)
                    THEN SelectSeq(touched, LAMBDA j : j # k /\ j \in K)
                            \o (IF k \in K THEN <<k>> ELSE <<>>)
                    ELSE SelectSeq(touched, LAMBDA j : j \in K)
      /\ setAt' = [j \in Keys |-> IF j \notin K THEN -1
                                  ELSE IF op = "set" /\ j = k THEN now
                                  ELSE setAt[j]]
      /\ gets' = IF op = "get" THEN gets + 1
                 ELSE IF op = "clear" THEN 0 ELSE gets
      /\ fresh' = IF op = "clear" THEN <<>>
                  ELSE IF op = "set" /\ fresh # Broken /\ k \notin Range(fresh)
                  THEN Append(fresh, k)
                  ELSE Broken

\* The record of a call op(k, v) that returned ret: with it, whether k was
\* stored and whether max_size items were stored when the call began.
Called(op, k, v, ret) ==
    [op |-> op, key |-> k, value |-> v, ret |-> ret,
     stored |-> Contains(cache, k), full |-> Len(cache) >= max_size]

\* ------------------------------------------------ calls of LocalLRUCache
\* A get that counts an expired item as an expiration and not as a miss.
LocalGetNoMissOnExpiry(k) ==
    /\ IF ~Contains(cache, k)
       THEN /\ misses' = misses + 1
            /\ last' = Called("get", k, None, None)
            /\ UNCHANGED <<cache, hits, expirations>>
       ELSE IF IsExpired(Item(cache, k), now)
       THEN /\ cache' = DelKey(cache, k)
            /\ expirations' = expirations + 1
            /\ last' = Called("get", k, None, None)
            /\ UNCHANGED <<hits, misses>>
       ELSE /\ cache' = MoveToEnd(cache, k)
            /\ hits' = hits + 1
            /\ last' = Called("get", k, None, Item(cache, k).value)
            /\ UNCHANGED <<misses, expirations>>
    /\ UNCHANGED <<max_size, evictions>>
    /\ History("get", k, last'.ret, KeySet(cache'))

\* LocalLRUCache.get(key).  The body runs under self._lock and awaits
\* nothing, so the call is one step.
LocalGet(k) ==
    /\ IF ~Contains(cache, k)
       THEN /\ misses' = misses + 1
            /\ last' = Called("get", k, None, None)
            /\ UNCHANGED <<cache, hits, expirations>>
       ELSE IF IsExpired(Item(cache, k), now)
       THEN /\ cache' = DelKey(cache, k)
            /\ expirations' = expirations + 1
            /\ misses' = misses + 1
            /\ last' = Called("get", k, None, None)
            /\ UNCHANGED hits
       ELSE /\ cache' = MoveToEnd(cache, k)
            /\ hits' = hits + 1
            /\ last' = Called("get", k, None, Item(cache, k).value)
            /\ UNCHANGED <<misses, expirations>>
    /\ UNCHANGED <<max_size, evictions>>
    /\ History("get", k, last'.ret, KeySet(cache'))

\* The items of c with the item of key k updated in place.
Updated(c, k, v, t) ==
    [i \in 1..Len(c) |-> IF c[i].key = k THEN UpdateItem(c[i], v, t) ELSE c[i]]

\* A set that makes room before it looks the key up.
LocalSetEvictFirst(k, v) ==
    /\ IF AtCapacity(cache, max_size)
       THEN /\ cache' = IF Contains(PopItemFirst(cache), k)
                        THEN MoveToEnd(Updated(PopItemFirst(cache), k, v, now), k)
                        ELSE PopItemFirst(cache) \o <<NewItem(k, v, now)>>
            /\ evictions' = evictions + 1
       ELSE /\ cache' = IF Contains(cache, k)
                        THEN MoveToEnd(Updated(cache, k, v, now), k)
                        ELSE cache \o <<NewItem(k, v, now)>>
            /\ UNCHANGED evictions
    /\ last' = Called("set", k, v, None)
    /\ UNCHANGED <<max_size, hits, misses, expirations>>
    /\ History("set", k, None, KeySet(cache'))

\* LocalLRUCache.set(key, value); one step, as get.
LocalSet(k, v) ==
    /\ IF Contains(cache, k)
       THEN /\ cache' = MoveToEnd(Updated(cache, k, v, now), k)
            /\ UNCHANGED evictions
       ELSE IF AtCapacity(cache, max_size)
       THEN /\ cache' = PopItemFirst(cache) \o <<NewItem(k, v, now)>>
            /\ evictions' = evictions + 1
       ELSE /\ cache' = cache \o <<NewItem(k, v, now)>>
            /\ UNCHANGED evictions
    /\ last' = Called("set", k, v, None)
    /\ UNCHANGED <<max_size, hits, misses, expirations>>
    /\ History("set", k, None, KeySet(cache'))

\* LocalLRUCache.delete(key)
LocalDelete(k) ==
    /\ IF Contains(cache, k)
       THEN /\ cache' = DelKey(cache, k)
            /\ last' = Called("delete", k, None, True)
       ELSE /\ UNCHANGED cache
            /\ last' = Called("delete", k, None, False)
    /\ UNCHANGED <<max_size, hits, misses, evictions, expirations>>
    /\ History("delete", k, last'.ret, KeySet(cache'))

\* A clear that leaves the expirations counter.
LocalClearKeepExpirations ==
    /\ cache' = <<>>
    /\ hits' = 0
    /\ misses' = 0
    /\ evictions' = 0
    /\ last' = Called("clear", None, None, None)
    /\ UNCHANGED <<max_size, expirations>>
    /\ History("clear", None, None, {})

\* LocalLRUCache.clear()
LocalClear ==
    /\ cache' = <<>>
    /\ hits' = 0
    /\ misses' = 0
    /\ evictions' = 0
    /\ expirations' = 0
    /\ last' = Called("clear", None, None, None)
    /\ UNCHANGED max_size
    /\ History("clear", None, None, {})

\* LocalLRUCache.size()
Size == Len(cache)

\* A hit rate that is a ratio, not a percentage.
HitRateRatio(h, m) ==
    LET requests == h + m
    IN  IF requests > 0 THEN <<h, requests>> ELSE <<0, 1>>

\* The hit_rate of LocalLRUCache.get_stats() before round(., 2): a percentage,
\* as the fraction <<numerator, denominator>>.
HitRate(h, m) ==
    LET requests == h + m
    IN  IF requests > 0 THEN <<h * 100, requests>> ELSE <<0, 1>>

\* round(n / d, 2) in hundredths, for n >= 0 and d > 0: the nearest
\* hundredth (no n / d the cache reaches within the bounds lies halfway
\* between two hundredths).
Round2(n, d) == (200 * n + d) \div (2 * d)

\* The hit_rate LocalLRUCache.get_stats() returns, in hundredths.
HitRateReported ==
    Round2(HitRate(hits, misses)[1], HitRate(hits, misses)[2])

\* LocalLRUCache.get_stats(), hit_rate before round(., 2)
LocalGetStats ==
    [current_size |-> Len(cache), max_size |-> max_size,
     hit_rate |-> HitRate(hits, misses),
     total_hits |-> hits, total_misses |-> misses,
     total_requests |-> hits + misses,
     evictions |-> evictions, expirations |-> expirations,
     ttl_seconds |-> TTL]

\* ------------------------------------------------------------ RedisCache
\* No value under a key of the Redis server.
NoEntry == [value |-> None, timestamp |-> 0]

\* a guard that leaves the connected flag out
RedisUsableUnlessNoClient == redis_client

\* The guard of every RedisCache method:
\* not (not self.connected or not self.redis_client)
RedisUsable == connected /\ redis_client

\* What the Redis server answers to GET key: a value SET with ex=ttl is gone
\* once ttl seconds have passed.
ServerGet(k) ==
    IF remote[k].value # None /\ now - remote[k].timestamp < TTL
    THEN remote[k].value
    ELSE None

\* The outcomes of a request to the Redis server: an answer, or an exception
\* (connection error, timeout).
Outcomes == {"ok", "error"}

\* RedisCache.get(key), the request ending in outcome.
RedisGet(k, outcome) ==
    IF ~RedisUsable THEN None
    ELSE IF outcome = "ok" THEN ServerGet(k) ELSE None

\* The Redis server after RedisCache.set(key, value), the request ending in
\* outcome: SET key value EX ttl.
RedisSet(k, v, outcome) ==
    IF RedisUsable /\ outcome = "ok"
    THEN [remote EXCEPT ![k] = [value |-> v, timestamp |-> now]]
    ELSE remote

\* The Redis server after RedisCache.delete(key), the request ending in
\* outcome: DEL key.
RedisDelete(k, outcome) ==
    IF RedisUsable /\ outcome = "ok"
    THEN [remote EXCEPT ![k] = NoEntry]
    ELSE remote

\* The Redis server after RedisCache.clear(), the request ending in outcome:
\* FLUSHDB.
RedisClear(outcome) ==
    IF RedisUsable /\ outcome = "ok"
    THEN [k \in MgrKeys |-> NoEntry]
    ELSE remote

\* An except clause that lets the exception of the request go on to the caller.
RedisExcUncaught(outcome) == IF outcome = "error" THEN "Exception" ELSE None

\* The exception a RedisCache method ends with, its request ending in
\* outcome: except Exception logs it and returns, so there is none.
RedisExc(outcome) == None

\* What RedisCache.set returns: bool(result) of SET, False when the guard or
\* the except clause returns.
RedisSetRet(outcome) ==
    IF RedisUsable /\ outcome = "ok" THEN True ELSE False

\* What RedisCache.delete returns: bool(result) of DEL, the number of keys
\* removed.
RedisDeleteRet(k, outcome) ==
    IF RedisUsable /\ outcome = "ok" /\ ServerGet(k) # None THEN True ELSE False

\* What RedisCache.clear returns.
RedisClearRet(outcome) ==
    IF RedisUsable /\ outcome = "ok" THEN True ELSE False

\* A health_check that answers True without a ping.
RedisHealthCheckRetAlways(outcome) == True

\* What RedisCache.health_check returns: result is True, of PING.
RedisHealthCheckRet(outcome) ==
    IF RedisUsable /\ outcome = "ok" THEN True ELSE False

\* A health_check whose except clause leaves connected alone.
RedisHealthCheckConnectedKept(outcome) == connected

\* RedisCache.connected after health_check: the except clause sets it False.
RedisHealthCheckConnected(outcome) ==
    IF RedisUsable /\ outcome = "error" THEN FALSE ELSE connected

\* ---------------------------------------------------------- CacheManager
\* A task that is in no call of CacheManager.  Of the history a call
\* carries, deleted tells of a get that a delete of its key was under way
\* with it and no set of the key has begun since, and peer is, for a set,
\* the outcome of the remote write of a set of the same key that ended
\* while it was under way.
Idle == [pc |-> "idle", op |-> "none", key |-> None, value |-> None,
         ret |-> None, live |-> None, ryw |-> FALSE, trace |-> <<>>,
         outcome |-> "none", rret |-> None, exc |-> None, ryd |-> FALSE,
         deleted |-> FALSE, peer |-> "none"]

\* if value is None: the test of the local value turned round
LocalHitInverted(value) == value = None

\* the test of the local value never passing
LocalHitNever(value) == FALSE

\* CacheManager.get: if value is not None, after the local get
LocalHit(value) == value # None

\* the test of the remote value left out
RemoteHitAlways(value) == TRUE

\* CacheManager.get: if value is not None, after the remote get
RemoteHit(value) == value # None

\* history: the value of the live entry the local tier holds for k, else None
LiveLocal(k) ==
    IF Contains(cache, k) /\ now - setAt[k] <= TTL
    THEN Item(cache, k).value
    ELSE None

\* history: the CacheManager call completed last was set(k, v), and no call
\* of the local tier followed its local set
JustSet(k) ==
    /\ done.op = "set" /\ done.key = k
    /\ last.op = "set" /\ last.key = k /\ last.value = done.value

\* history: the CacheManager call completed last was delete(k), and no
\* set(k) is under way
JustDeleted(k) ==
    /\ done.op = "delete" /\ done.key = k
    /\ \A u \in Tasks : ~(tasks[u].op = "set" /\ tasks[u].key = k)

\* CacheManager.get_stats(): start_time is the time 0 of __init__, and
\* uptime_seconds is taken before round(., 2).
MgrGetStats ==
    [local_cache |-> LocalGetStats,
     uptime_seconds |-> now,
     cache_strategy |-> "dual_level_lru",
     levels |-> <<"local_lru", "redis_distributed">>]

\* Task t's call returns: c is the call with its result.
Return(t, c) ==
    /\ done' = [c EXCEPT !.pc = "idle"]
    /\ tasks' = [tasks EXCEPT ![t] = Idle]

\* Task t's call goes on as c.
Continue(t, c) ==
    /\ tasks' = [tasks EXCEPT ![t] = c]
    /\ UNCHANGED done

\* The call c after a request to the Redis server that ended in outcome, or
\* was not made.
Asked(c, outcome) ==
    [c EXCEPT !.trace = IF RedisUsable THEN Append(@, "R") ELSE @,
              !.outcome = IF RedisUsable THEN outcome ELSE "skipped",
              !.exc = RedisExc(IF RedisUsable THEN outcome ELSE "skipped")]

\* CacheManager.get(key), to the end of await self.local_cache.get(key) and
\* the test that follows
MgrGetLocal(t, k) ==
    /\ tasks[t].pc = "idle"
    /\ calls < MaxCalls
    /\ calls' = calls + 1
    /\ LocalGet(k)
    /\ \E c \in {[Idle EXCEPT !.op = "get", !.key = k, !.live = LiveLocal(k),
                              !.ryw = JustSet(k) /\ LiveLocal(k) # None,
                              !.ryd = JustDeleted(k),
                              !.deleted =
                                  \E u \in Tasks : /\ tasks[u].op = "delete"
                                                   /\ tasks[u].key = k,
                              !.trace = <<"L">>]} :
         IF LocalHit(last'.ret)
         THEN Return(t, [c EXCEPT !.ret = last'.ret])
         ELSE Continue(t, [c EXCEPT !.pc = "get_remote"])
    /\ UNCHANGED <<now, lockVars, kafkaVars, apiVars, writtenAt, redisVars,
                   remote>>

\* CacheManager.get: await self.redis_cache.get(key) and the test that follows
MgrGetRemote(t) ==
    /\ tasks[t].pc = "get_remote"
    /\ \E outcome \in Outcomes :
         \E value \in {RedisGet(tasks[t].key, outcome)} :
           IF RemoteHit(value)
           THEN Continue(t, [Asked(tasks[t], outcome) EXCEPT
                                !.pc = "get_fill", !.value = value,
                                !.rret = value])
           ELSE Return(t, [Asked(tasks[t], outcome) EXCEPT !.rret = value])
    /\ UNCHANGED <<now, lockVars, kafkaVars, apiVars, writtenAt, localVars,
                   redisVars,
                   remote, calls>>

\* CacheManager.get: await self.local_cache.set(key, value); return value
MgrGetFill(t) ==
    /\ tasks[t].pc = "get_fill"
    /\ LocalSet(tasks[t].key, tasks[t].value)
    /\ Return(t, [tasks[t] EXCEPT !.ret = tasks[t].value,
                                  !.trace = Append(@, "L")])
    /\ UNCHANGED <<now, lockVars, kafkaVars, apiVars, writtenAt, redisVars,
                   remote,
                   calls>>

\* CacheManager.set(key, value), to the end of
\* await self.local_cache.set(key, value)
MgrSetLocal(t, k, v) ==
    /\ tasks[t].pc = "idle"
    /\ calls < MaxCalls
    /\ calls' = calls + 1
    /\ LocalSet(k, v)
    /\ tasks' = [u \in Tasks |->
                   IF u = t
                   THEN [Idle EXCEPT !.pc = "set_remote", !.op = "set",
                                     !.key = k, !.value = v, !.trace = <<"L">>]
                   ELSE IF tasks[u].op = "get" /\ tasks[u].key = k
                   THEN [tasks[u] EXCEPT !.ryd = FALSE, !.deleted = FALSE]
                   ELSE tasks[u]]
    /\ UNCHANGED done
    /\ writtenAt' = [writtenAt EXCEPT ![k] = now]
    /\ UNCHANGED <<now, lockVars, kafkaVars, apiVars, redisVars, remote>>

\* CacheManager.set: await self.redis_cache.set(key, value)
MgrSetRemote(t) ==
    /\ tasks[t].pc = "set_remote"
    /\ \E outcome \in Outcomes :
         /\ remote' = RedisSet(tasks[t].key, tasks[t].value, outcome)
         /\ done' = [Asked(tasks[t], outcome) EXCEPT
                        !.pc = "idle", !.rret = RedisSetRet(outcome)]
         /\ tasks' = [u \in Tasks |->
                        IF u = t THEN Idle
                        ELSE IF tasks[u].op = "set"
                                /\ tasks[u].key = tasks[t].key
                        THEN [tasks[u] EXCEPT !.peer = done'.outcome]
                        ELSE tasks[u]]
    /\ UNCHANGED <<now, lockVars, kafkaVars, apiVars, writtenAt, localVars,
                   redisVars,
                   calls>>

\* CacheManager.delete(key), to the end of await self.local_cache.delete(key)
MgrDeleteLocal(t, k) ==
    /\ tasks[t].pc = "idle"
    /\ calls < MaxCalls
    /\ calls' = calls + 1
    /\ LocalDelete(k)
    /\ tasks' = [u \in Tasks |->
                   IF u = t
                   THEN [Idle EXCEPT !.pc = "delete_remote", !.op = "delete",
                                     !.key = k, !.trace = <<"L">>]
                   ELSE IF tasks[u].op = "get" /\ tasks[u].key = k
                   THEN [tasks[u] EXCEPT !.deleted = TRUE]
                   ELSE tasks[u]]
    /\ UNCHANGED done
    /\ UNCHANGED <<now, lockVars, kafkaVars, apiVars, writtenAt, redisVars,
                   remote>>

\* CacheManager.delete: await self.redis_cache.delete(key)
MgrDeleteRemote(t) ==
    /\ tasks[t].pc = "delete_remote"
    /\ \E outcome \in Outcomes :
         /\ remote' = RedisDelete(tasks[t].key, outcome)
         /\ Return(t, [Asked(tasks[t], outcome) EXCEPT
                          !.rret = RedisDeleteRet(tasks[t].key, outcome)])
    /\ UNCHANGED <<now, lockVars, kafkaVars, apiVars, writtenAt, localVars,
                   redisVars,
                   calls>>

\* CacheManager.clear(), to the end of await self.local_cache.clear()
MgrClearLocal(t) ==
    /\ tasks[t].pc = "idle"
    /\ calls < MaxCalls
    /\ calls' = calls + 1
    /\ LocalClear
    /\ Continue(t, [Idle EXCEPT !.pc = "clear_remote", !.op = "clear",
                                !.trace = <<"L">>])
    /\ UNCHANGED <<now, lockVars, kafkaVars, apiVars, writtenAt, redisVars,
                   remote>>

\* CacheManager.clear: await self.redis_cache.clear()
MgrClearRemote(t) ==
    /\ tasks[t].pc = "clear_remote"
    /\ \E outcome \in Outcomes :
         /\ remote' = RedisClear(outcome)
         /\ Return(t, [Asked(tasks[t], outcome) EXCEPT
                          !.rret = RedisClearRet(outcome)])
    /\ UNCHANGED <<now, lockVars, kafkaVars, apiVars, writtenAt, localVars,
                   redisVars,
                   calls>>

\* CacheManager.health_check(): size() is read, compared with 0 and kept;
\* RedisCache.health_check pings and its answer is dropped.
MgrHealthCheck(t) ==
    /\ tasks[t].pc = "idle"
    /\ calls < MaxCalls
    /\ calls' = calls + 1
    /\ \E outcome \in Outcomes :
         /\ connected' = RedisHealthCheckConnected(outcome)
         /\ Return(t, [Asked([Idle EXCEPT !.op = "health_check"], outcome)
                          EXCEPT !.rret = RedisHealthCheckRet(outcome),
                                 !.ret = IF Size >= 0 THEN True ELSE False])
    /\ UNCHANGED <<now, lockVars, kafkaVars, apiVars, writtenAt, localVars,
                   redis_client, connection_pool, remote>>

\* CacheManager.initialize, awaited at startup before the service takes a
\* request: RedisCache.connect(), the ping answered or not
MgrInitialize ==
    /\ ~connected
    /\ calls = 0
    /\ \E outcome \in Outcomes :
         /\ IF outcome = "ok"
            THEN connection_pool' = TRUE /\ redis_client' = TRUE
                 /\ connected' = TRUE
            ELSE connection_pool' = TRUE /\ redis_client' = FALSE
                 /\ connected' = FALSE
         /\ done' = [Idle EXCEPT !.op = "initialize", !.trace = <<"R">>,
                                 !.outcome = outcome, !.exc = RedisExc(outcome)]
    /\ UNCHANGED <<now, lockVars, kafkaVars, apiVars, writtenAt, localVars,
                   remote,
                   tasks, calls>>

\* RedisCache.disconnect(), closing the client and the pool ending in
\* outcome: connected is reset in the try block, after both have closed.
RedisDisconnect(outcome) ==
    IF redis_client
    THEN /\ connected' = IF outcome = "ok" THEN FALSE ELSE connected
         /\ redis_client' = FALSE
         /\ connection_pool' = FALSE
    ELSE UNCHANGED redisVars

\* CacheManager.close, awaited at shutdown when the requests have ended:
\* the local cache is cleared, then RedisCache.disconnect().
MgrClose(t) ==
    /\ \A u \in Tasks : tasks[u].pc = "idle"
    /\ calls < MaxCalls
    /\ calls' = calls + 1
    /\ LocalClear
    /\ \E outcome \in Outcomes :
         /\ RedisDisconnect(outcome)
         /\ \E o \in {IF redis_client THEN outcome ELSE "skipped"} :
              Return(t, [Idle EXCEPT !.op = "close",
                                     !.trace = IF redis_client
                                               THEN <<"L", "R">> ELSE <<"L">>,
                                     !.outcome = o, !.exc = RedisExc(o)])
    /\ UNCHANGED <<now, lockVars, kafkaVars, apiVars, writtenAt, remote>>

\* ------------------------------------------------------------ KafkaLogger
\* Python's None for the fields of KafkaLogger call records is None above.
cacheVars == <<now, localVars, mgrVars, lockVars>>

\* No KafkaLogger call has completed yet.
KIdle == [op |-> "none", ev |-> 0, ret |-> None, sent |-> None,
          exc |-> None, attempts |-> 0, sleeps |-> 0, hit |-> None,
          outcome |-> None]

\* No initialize call is under way, and none has been; closed tells that
\* close has returned and initialize has not been called since, started
\* that the producer the logger holds has been started and not stopped, and
\* open counts the producers started and not stopped.
InitIdle == [pc |-> "idle", attempt |-> 0, sleeps |-> 0, closed |-> FALSE,
             started |-> FALSE, open |-> 0]

\* The "kafka_initialized" event of initialize; the event of a caller is
\* numbered by the call that created it.
Ping == -1

\* _queue_task is None: no delivery worker was ever created.  orphans
\* counts the worker tasks that were running when initialize assigned a new
\* task to _queue_task: nothing refers to them any more, so nothing cancels
\* them.
NoTask == [state |-> "none", ev |-> 0, cancel |-> FALSE, orphans |-> 0]

\* The delivery worker a successful initialize creates, suspended in
\* _message_queue.get().
NewTask == [state |-> "get", ev |-> 0, cancel |-> FALSE, orphans |-> 0]

\* KafkaLogger.__init__.
KafkaInit ==
    /\ producer = FALSE
    /\ kconnected = FALSE
    /\ message_queue = <<>>
    /\ queue_task = NoTask
    /\ total_requests = 0
    /\ cache_hits = 0
    /\ cache_misses = 0
    /\ init = InitIdle
    /\ closing = "idle"
    /\ sends = {}
    /\ kcalls = 0
    /\ drops = 0
    /\ delivered = <<>>
    /\ attempted = EmptyBag
    /\ accepted = <<>>
    /\ kdone = KIdle

\* connected and producer, the condition _send_message and the worker test.
KafkaUsable == kconnected /\ producer

\* A queue that lets every event in.
QueueFullNever(q) == FALSE

\* asyncio.Queue.full() for the queue of __init__: put_nowait raises
\* QueueFull when it holds maxsize events.
QueueFull(q) == Len(q) >= MaxQueue

\* The queue after _send_message has offered ev with put_nowait.
Offered(q, ev) == IF QueueFull(q) THEN q ELSE Append(q, ev)

\* What the not-connected branch of _send_message returns: False when the
\* queue is full; otherwise it does not return.
OfferRet(q) == IF QueueFull(q) THEN False ELSE None

\* The exception the not-connected branch of _send_message ends with:
\* put_nowait returns None, and awaiting None raises TypeError, which the
\* handler for asyncio.QueueFull does not catch.
OfferExc(q) == IF QueueFull(q) THEN None ELSE "TypeError"

\* The events dropped after an offer to q.
OfferDrops(q) == IF QueueFull(q) THEN drops + 1 ELSE drops

\* How producer.send_and_wait under wait_for may end.
SendOutcomes == {"ok", "timeout", "error"}

\* What the connected branch of _send_message returns.
SendRet(outcome) == IF outcome = "ok" THEN True ELSE False

\* A _send_message that never clears connected.
SendConnectedKept(outcome) == kconnected

\* connected after the connected branch of _send_message: only an error
\* other than a timeout clears it.
SendConnected(outcome) == IF outcome = "error" THEN FALSE ELSE kconnected

\* The events of callers the broker has taken after it has taken ev.
Taken(ev) == IF ev = Ping THEN delivered ELSE Append(delivered, ev)

\* The events of callers whose send has begun once the send of ev has.
Begun(ev) == IF ev = Ping THEN attempted ELSE attempted (+) SetToBag({ev})

\* The events of callers the broker has taken after a send of ev.
Delivered(ev, outcome) == IF outcome = "ok" THEN Taken(ev) ELSE delivered

\* The record of a completed KafkaLogger call that has run _send_message
\* for ev: what _send_message resolved to, the exception it ended with, and
\* what the call returned (only _send_message itself returns a value).
KDone(op, ev, sent, exc) ==
    [KIdle EXCEPT !.op = op, !.ev = ev, !.sent = sent, !.exc = exc,
                  !.ret = IF op = "_send_message" THEN sent ELSE None]

\* A log_request that counts every request as a hit.
CountedHitsAlways(cache_hit) == cache_hits + 1

\* cache_hits after log_request has counted a request.
CountedHits(cache_hit) == IF cache_hit THEN cache_hits + 1 ELSE cache_hits

\* cache_misses after log_request has counted a request.
CountedMisses(cache_hit) ==
    IF cache_hit THEN cache_misses ELSE cache_misses + 1

\* KafkaLogger.log_request: the counters, and a task created for
\* _send_message that has not run yet.
LogRequestCall(cache_hit) ==
    /\ kcalls < MaxKafkaCalls
    /\ kcalls' = kcalls + 1
    /\ total_requests' = total_requests + 1
    /\ cache_hits' = CountedHits(cache_hit)
    /\ cache_misses' = CountedMisses(cache_hit)
    /\ sends' = sends \cup {[ev |-> kcalls + 1, by |-> "log_request",
                             pc |-> "created"]}
    /\ kdone' = [KDone("log_request", kcalls + 1, None, None)
                    EXCEPT !.hit = IF cache_hit THEN True ELSE False]
    /\ UNCHANGED <<producer, kconnected, message_queue, queue_task, init,
                   closing, drops, delivered, attempted, accepted>>

\* log_request called by itself.
LogRequest(cache_hit) ==
    LogRequestCall(cache_hit) /\ UNCHANGED <<cacheVars, apiVars>>

\* KafkaLogger.reset_metrics.
ResetMetrics ==
    /\ kcalls < MaxKafkaCalls
    /\ kcalls' = kcalls + 1
    /\ total_requests' = 0
    /\ cache_hits' = 0
    /\ cache_misses' = 0
    /\ kdone' = [KIdle EXCEPT !.op = "reset_metrics"]
    /\ UNCHANGED <<producer, kconnected, message_queue, queue_task, init,
                   closing, sends, drops, delivered, attempted, accepted,
                   cacheVars, apiVars>>

\* history: accepted after event ev is offered to queue q.
Accepted(q, ev) == IF QueueFull(q) THEN accepted ELSE Append(accepted, ev)

\* A _send_message that offers every event to the queue, connected or not.
SendMessageQueued(s) ==
    /\ sends' = sends \ {s}
    /\ UNCHANGED attempted
    /\ accepted' = Accepted(message_queue, s.ev)
    /\ message_queue' = Offered(message_queue, s.ev)
    /\ drops' = OfferDrops(message_queue)
    /\ kdone' = KDone(IF s.by = "log_request" THEN "_send_message" ELSE s.by,
                      s.ev, OfferRet(message_queue), OfferExc(message_queue))

\* _send_message from its first line to its first suspension, for the
\* event of call s: the offer to the queue, or the send begun.
SendMessage(s) ==
    IF KafkaUsable
    THEN /\ sends' = (sends \ {s}) \cup {[s EXCEPT !.pc = "sending"]}
         /\ attempted' = Begun(s.ev)
         /\ UNCHANGED <<message_queue, drops, kdone, accepted>>
    ELSE /\ sends' = sends \ {s}
         /\ UNCHANGED attempted
         /\ accepted' = Accepted(message_queue, s.ev)
         /\ message_queue' = Offered(message_queue, s.ev)
         /\ drops' = OfferDrops(message_queue)
         /\ kdone' = KDone(IF s.by = "log_request" THEN "_send_message"
                                                   ELSE s.by,
                           s.ev, OfferRet(message_queue),
                           OfferExc(message_queue))

\* The task log_request created runs _send_message.
SendTask(s) ==
    /\ s \in sends
    /\ s.pc = "created"
    /\ SendMessage(s)
    /\ UNCHANGED <<producer, kconnected, queue_task, metricVars, init,
                   closing, kcalls, delivered, cacheVars, apiVars>>

\* The callers that await _send_message: log_error, and _send_system_event
\* for the startup and shutdown events.
Awaiting == {"log_error", "_send_system_event"}

\* KafkaLogger.log_error and KafkaLogger._send_system_event: neither
\* catches what _send_message raises.
LogAwaited(op) ==
    /\ kcalls < MaxKafkaCalls
    /\ kcalls' = kcalls + 1
    /\ SendMessage([ev |-> kcalls + 1, by |-> op, pc |-> "created"])
    /\ UNCHANGED <<producer, kconnected, queue_task, metricVars, init,
                   closing, delivered, cacheVars, apiVars>>

\* The connected branch of _send_message, resumed when send_and_wait ends.
SendDone(s, outcome) ==
    /\ s \in sends
    /\ s.pc = "sending"
    /\ sends' = sends \ {s}
    /\ delivered' = Delivered(s.ev, outcome)
    /\ kconnected' = SendConnected(outcome)
    /\ kdone' = [KDone(IF s.by = "log_request" THEN "_send_message" ELSE s.by,
                       s.ev, SendRet(outcome), None)
                    EXCEPT !.outcome = outcome]
    /\ UNCHANGED <<producer, message_queue, queue_task, metricVars, init,
                   closing, kcalls, drops, attempted, accepted,
                   cacheVars, apiVars>>

\* An initialize whose failed attempts all pause before the next one.
LastAttemptNever(attempt) == FALSE

\* The attempt of initialize that returns once it has failed.
LastAttempt(attempt) == attempt = max_retries

\* range(1, max_retries + 1) has an attempt after this one.
MoreAttempts(attempt) == attempt < max_retries

\* The record of an initialize call that has returned.
InitDone == [KIdle EXCEPT !.op = "initialize", !.attempts = init.attempt,
                          !.sleeps = init.sleeps]

\* A close that finds no worker to cancel.
RunningNever(task) == FALSE

\* The delivery worker has been created and has not exited.
Running(task) == task.state \in {"get", "send", "sleep"}

\* _queue_task after "self._queue_task = asyncio.create_task(...)" of
\* initialize: the task it held is not looked at, and goes on when it runs.
Created(task) ==
    [NewTask EXCEPT !.orphans = task.orphans + IF Running(task) THEN 1 ELSE 0]

\* KafkaLogger.initialize, from its first line to producer.start(): the
\* first attempt creates a producer. The service initializes the logger
\* while no delivery worker runs and no close is under way.
KInitialize ==
    /\ init.pc = "idle"
    /\ closing = "idle"
    /\ queue_task.state \in {"none", "done"}
    /\ kcalls < MaxKafkaCalls
    /\ kcalls' = kcalls + 1
    /\ init' = [init EXCEPT !.pc = "start", !.attempt = 1, !.sleeps = 0,
                            !.closed = FALSE]
    /\ producer' = TRUE
    /\ UNCHANGED <<kconnected, message_queue, queue_task, metricVars, closing,
                   sends, drops, delivered, kdone, attempted, accepted,
                   cacheVars, apiVars>>

\* initialize resumed when producer.start() ends. When it has succeeded,
\* _send_system_event("kafka_initialized") runs while connected is still
\* False, so _send_message offers the event to the queue: when the queue
\* takes it the TypeError makes the attempt a failed one; when the queue is
\* full _send_message returns False, connected becomes True and the
\* delivery worker is created.
KInitStarted(outcome) ==
    /\ init.pc = "start"
    /\ ~KafkaUsable
    /\ IF outcome = "ok"
       THEN /\ message_queue' = Offered(message_queue, Ping)
            /\ drops' = OfferDrops(message_queue)
            /\ IF OfferExc(message_queue) = None
               THEN /\ kconnected' = TRUE
                    /\ queue_task' = Created(queue_task)
                    /\ init' = [init EXCEPT !.pc = "idle", !.started = TRUE,
                                            !.open = @ + 1]
                    /\ kdone' = [InitDone EXCEPT !.ev = Ping, !.sent = False]
               ELSE /\ init' = [init EXCEPT !.pc = "stop", !.started = TRUE,
                                            !.open = @ + 1]
                    /\ UNCHANGED <<kconnected, queue_task, kdone>>
       ELSE /\ init' = [init EXCEPT !.pc = "stop"]
            /\ UNCHANGED <<kconnected, message_queue, queue_task, drops,
                           kdone>>
    /\ UNCHANGED <<producer, metricVars, closing, sends, kcalls, delivered,
                   attempted, accepted,
                   cacheVars, apiVars>>

\* initialize called while the delivery worker runs, which nothing in
\* initialize looks at: the producer the logger held is replaced by a new
\* one, not started yet, and is stopped by no one.  These calls are
\* bounded by the workers they may leave behind, and are not among the calls
\* kcalls counts.
KInitializeAgain ==
    /\ init.pc = "idle"
    /\ closing = "idle"
    /\ Running(queue_task)
    /\ queue_task.orphans < MaxOrphans
    /\ UNCHANGED kcalls
    /\ init' = [init EXCEPT !.pc = "start", !.attempt = 1, !.sleeps = 0,
                            !.closed = FALSE, !.started = FALSE]
    /\ producer' = TRUE
    /\ UNCHANGED <<kconnected, message_queue, queue_task, metricVars, closing,
                   sends, drops, delivered, kdone, attempted, accepted,
                   cacheVars, apiVars>>

\* initialize resumed when producer.start() ends, connected being True
\* from an earlier initialize: _send_system_event("kafka_initialized")
\* takes the connected branch of _send_message and waits for the send.
KInitStartedAgain(outcome) ==
    /\ init.pc = "start"
    /\ KafkaUsable
    /\ init' = IF outcome = "ok"
               THEN [init EXCEPT !.pc = "ping", !.started = TRUE,
                                 !.open = @ + 1]
               ELSE [init EXCEPT !.pc = "stop"]
    /\ UNCHANGED <<producer, kconnected, message_queue, queue_task,
                   metricVars, closing, sends, kcalls, drops, delivered,
                   kdone, attempted, accepted,
                   cacheVars, apiVars>>

\* initialize resumed when the send of its ping ends: _send_message
\* returns True or False, which _send_system_event drops, so connected is
\* set True and a delivery worker is created, whatever the outcome.
KInitPinged(outcome) ==
    /\ init.pc = "ping"
    /\ kconnected' = TRUE
    /\ queue_task' = Created(queue_task)
    /\ init' = [init EXCEPT !.pc = "idle"]
    /\ kdone' = [InitDone EXCEPT !.ev = Ping, !.sent = SendRet(outcome)]
    /\ UNCHANGED <<producer, message_queue, metricVars, closing, sends,
                   kcalls, drops, delivered, attempted, accepted,
                   cacheVars, apiVars>>

\* The history after producer.stop() on the producer the logger holds: a
\* started producer is open no more.
Stopped ==
    [init EXCEPT !.started = FALSE,
                 !.open = IF init.started THEN @ - 1 ELSE @]

\* The handler of a failed attempt, resumed when producer.stop() ends:
\* the producer is given up, and the last attempt returns.
KInitFailed ==
    /\ init.pc = "stop"
    /\ producer' = FALSE
    /\ IF LastAttempt(init.attempt)
       THEN /\ kconnected' = FALSE
            /\ init' = [Stopped EXCEPT !.pc = "idle"]
            /\ kdone' = InitDone
       ELSE /\ init' = [Stopped EXCEPT !.pc = "sleep", !.sleeps = @ + 1]
            /\ UNCHANGED <<kconnected, kdone>>
    /\ UNCHANGED <<message_queue, queue_task, metricVars, closing, sends,
                   kcalls, drops, delivered, attempted, accepted,
                   cacheVars, apiVars>>

\* initialize resumed when asyncio.sleep(retry_delay) ends: the next
\* attempt creates a producer.
KInitRetry ==
    /\ init.pc = "sleep"
    /\ IF MoreAttempts(init.attempt)
       THEN /\ init' = [init EXCEPT !.pc = "start", !.attempt = @ + 1]
            /\ producer' = TRUE
            /\ UNCHANGED kdone
       ELSE /\ init' = [init EXCEPT !.pc = "idle"]
            /\ kdone' = InitDone
            /\ UNCHANGED producer
    /\ UNCHANGED <<kconnected, message_queue, queue_task, metricVars, closing,
                   sends, kcalls, drops, delivered, attempted, accepted,
                   cacheVars, apiVars>>

\* close from "self.connected = False" on: the call returns, and the
\* logger holds no producer, whether close has stopped the one it held
\* or not.
Closed(stopped) ==
    /\ kconnected' = FALSE
    /\ producer' = FALSE
    /\ closing' = "idle"
    /\ init' = [(IF stopped THEN Stopped ELSE init)
                    EXCEPT !.closed = TRUE, !.started = FALSE]
    /\ kdone' = [KIdle EXCEPT !.op = "close"]

\* close from "if self.producer and self.connected" on: the producer is
\* stopped only when both hold.
CloseProducer ==
    IF producer /\ kconnected
    THEN closing' = "stop" /\ UNCHANGED <<producer, kconnected, init, kdone>>
    ELSE Closed(FALSE)

\* KafkaLogger.close, from its first line to its first suspension: a
\* running worker is cancelled and awaited. The service closes the logger
\* while no initialize is under way.
KClose ==
    /\ closing = "idle"
    /\ init.pc = "idle"
    /\ kcalls < MaxKafkaCalls
    /\ kcalls' = kcalls + 1
    /\ IF Running(queue_task)
       THEN /\ queue_task' = [queue_task EXCEPT !.cancel = TRUE]
            /\ closing' = "await_task"
            /\ UNCHANGED <<producer, kconnected, init, kdone>>
       ELSE CloseProducer /\ UNCHANGED queue_task
    /\ UNCHANGED <<message_queue, metricVars, sends, drops, delivered,
                   attempted, accepted,
                   cacheVars, apiVars>>

\* close resumed when the worker's task has ended.
KCloseJoined ==
    /\ closing = "await_task"
    /\ queue_task.state = "done"
    /\ CloseProducer
    /\ UNCHANGED <<message_queue, queue_task, metricVars, sends, kcalls,
                   drops, delivered, attempted, accepted,
                   cacheVars, apiVars>>

\* close resumed when producer.stop() ends, however it ends.
KCloseStopped ==
    /\ closing = "stop"
    /\ Closed(TRUE)
    /\ UNCHANGED <<message_queue, queue_task, metricVars, sends, kcalls,
                   drops, delivered, attempted, accepted,
                   cacheVars, apiVars>>

\* _process_message_queue resumed in _message_queue.get() with an event
\* to take: connected, it starts the send; otherwise it puts the event
\* back, at the tail, and sleeps.
WorkerGet ==
    /\ queue_task.state = "get"
    /\ ~queue_task.cancel
    /\ message_queue # <<>>
    /\ IF KafkaUsable
       THEN /\ message_queue' = Tail(message_queue)
            /\ attempted' = Begun(Head(message_queue))
            /\ queue_task' = [queue_task EXCEPT !.state = "send",
                                                !.ev = Head(message_queue)]
       ELSE /\ message_queue' = Append(Tail(message_queue),
                                       Head(message_queue))
            /\ queue_task' = [queue_task EXCEPT !.state = "sleep"]
            /\ UNCHANGED attempted
    /\ UNCHANGED <<producer, kconnected, metricVars, init, closing, sends,
                   kcalls, drops, delivered, kdone, accepted,
                   cacheVars, apiVars>>

\* A worker that queues again the event whose send has failed.
AfterSendRequeue(q, ev, outcome) == IF outcome = "ok" THEN q ELSE Append(q, ev)

\* The queue when the worker's send of ev has ended: the worker ignores
\* what _send_message returns.
AfterSend(q, ev, outcome) == q

\* The worker resumed when the send of the event it holds ends: whatever
\* _send_message returns, the event is not queued again.
WorkerSent(outcome) ==
    /\ queue_task.state = "send"
    /\ ~queue_task.cancel
    /\ delivered' = Delivered(queue_task.ev, outcome)
    /\ kconnected' = SendConnected(outcome)
    /\ queue_task' = [queue_task EXCEPT !.state = "get", !.ev = 0]
    /\ message_queue' = AfterSend(message_queue, queue_task.ev, outcome)
    /\ kdone' = [KDone("_send_message", queue_task.ev, SendRet(outcome), None)
                    EXCEPT !.outcome = outcome]
    /\ UNCHANGED <<producer, metricVars, init, closing, sends,
                   kcalls, drops, attempted, accepted,
                   cacheVars, apiVars>>

\* The worker resumed when asyncio.sleep(1) ends.
WorkerWake ==
    /\ queue_task.state = "sleep"
    /\ ~queue_task.cancel
    /\ queue_task' = [queue_task EXCEPT !.state = "get"]
    /\ UNCHANGED <<producer, kconnected, message_queue, metricVars, init,
                   closing, sends, kcalls, drops, delivered, kdone, attempted, accepted,
                   cacheVars, apiVars>>

\* The worker resumed with CancelledError where it is suspended: the loop
\* breaks and the task ends. The event of a send under way is with the
\* producer, which may still hand it to the broker.
WorkerCancelled(taken) ==
    /\ Running(queue_task)
    /\ queue_task.cancel
    /\ taken => queue_task.state = "send"
    /\ delivered' = IF taken THEN Taken(queue_task.ev) ELSE delivered
    /\ queue_task' = [queue_task EXCEPT !.state = "done", !.ev = 0]
    /\ UNCHANGED <<producer, kconnected, message_queue, metricVars, init,
                   closing, sends, kcalls, drops, kdone, attempted, accepted,
                   cacheVars, apiVars>>

\* ------------------------------------------------------- api/cities.py
\* The value task t calls CacheManager.set with: the two tasks write
\* different values, and post different codes.
ValueOf(t) == IF t = "t1" THEN "v1" ELSE "v2"

\* A task whose handler serves no request.
RIdle == [pc |-> "idle", id |-> 0, op |-> "none", city |-> None,
          code |-> None, row |-> None, value |-> None, status |-> 0,
          logged |-> <<>>, wrote |-> FALSE, expect |-> None,
          absent |-> FALSE, dberr |-> FALSE]

\* The service starts: the cities table holds the rows whose codes the
\* Redis server holds cached, only a lookup of a row having cached a code.
ApiInit(r) ==
    /\ db = [k \in MgrKeys |-> r[k].value]
    /\ reqs = [t \in Tasks |-> RIdle]
    /\ arrived = 0
    /\ posted = [k \in MgrKeys |-> None]
    /\ rdone = RIdle

\* The outcomes of a statement sent to the database.
DbOutcomes == {"ok", "error"}

\* A not-found branch that logs the request as answered with 200.
OutcomeOk(cache_hit, status_code) == [hit |-> cache_hit, status |-> 200]

\* The arguments cache_hit and status_code of a kafka.log_request call.
Outcome(cache_hit, status_code) == [hit |-> cache_hit, status |-> status_code]

\* The request r after kafka.log_request(..., cache_hit, status_code).
Logged(r, cache_hit, status_code) ==
    [r EXCEPT !.logged = Append(@, Outcome(cache_hit, status_code))]

\* get_city_country_code: if cached_value
CachedHit(value) == value # None

\* get_city_country_code: if not db_city
NotFound(row) == row = None

\* history: city k is in neither cache tier nor the store.
Absent(k) == LiveLocal(k) = None /\ ServerGet(k) = None /\ db[k] = None

\* history: the tasks other than t whose request is for city k, and those
\* of them that write the city.
Others(t, k) == {u \in Tasks \ {t} : reqs[u].city = k}
Writers(t, k) == {u \in Others(t, k) : reqs[u].op \in {"post", "delete"}}

\* The requests when task t's request r for city k arrives: a lookup under
\* way is no longer alone with the city, and with a write arriving it no
\* longer starts after the last write.
Arrived(t, k, r) ==
    [u \in Tasks |->
        IF u = t THEN r
        ELSE IF u \in Others(t, k)
        THEN [reqs[u] EXCEPT !.absent = FALSE,
                             !.expect = IF r.op = "get" THEN @ ELSE None]
        ELSE reqs[u]]

\* A request arrives at task t, after startup.
Arrive(t) ==
    /\ reqs[t].pc = "idle"
    /\ done.op = "initialize"
    /\ arrived < MaxRequests
    /\ arrived' = arrived + 1

\* Task t's handler goes on as r, the requests being rs.
Go(t, r, rs) ==
    /\ reqs' = [rs EXCEPT ![t] = r]
    /\ UNCHANGED rdone

\* Task t's handler answers: r is the request with its response.
Answer(t, r, rs) ==
    /\ rdone' = [r EXCEPT !.pc = "idle"]
    /\ reqs' = [rs EXCEPT ![t] = RIdle]

\* history: posted when task t's write r of city k is answered, the store
\* being d.
Posted(t, k, r, d) ==
    [posted EXCEPT ![k] = IF r.status = 201 /\ Writers(t, k) = {}
                             /\ d[k] = r.code
                          THEN r.code ELSE None]

\* get_city_country_code(city_name), to the end of the local get of
\* cache.get(cache_key) and, on a local hit, to the response.
GetCityLocal(t, k) ==
    /\ Arrive(t)
    /\ LocalGet(k)
    /\ \E r \in {[RIdle EXCEPT !.id = arrived + 1, !.op = "get", !.city = k,
                               !.expect = posted[k],
                               !.absent = Absent(k) /\ Others(t, k) = {}]} :
         IF LocalHit(last'.ret) /\ CachedHit(last'.ret)
         THEN /\ LogRequestCall(TRUE)
              /\ Answer(t, [Logged(r, TRUE, 200) EXCEPT
                               !.status = 200, !.value = last'.ret],
                        Arrived(t, k, r))
         ELSE /\ Go(t, [r EXCEPT !.pc = "get_remote"], Arrived(t, k, r))
              /\ UNCHANGED kafkaVars
    /\ UNCHANGED <<now, lockVars, mgrVars, db, posted>>

\* get_city_country_code: the Redis get of cache.get ends in outcome; on a
\* hit the local tier is filled and the response follows.
GetCityRemote(t) ==
    /\ reqs[t].pc = "get_remote"
    /\ \E outcome \in Outcomes :
         \E value \in {RedisGet(reqs[t].city, outcome)} :
           IF RemoteHit(value) /\ CachedHit(value)
           THEN /\ LocalSet(reqs[t].city, value)
                /\ LogRequestCall(TRUE)
                /\ Answer(t, [Logged(reqs[t], TRUE, 200) EXCEPT
                                 !.status = 200, !.value = value], reqs)
           ELSE /\ Go(t, [reqs[t] EXCEPT !.pc = "select"], reqs)
                /\ UNCHANGED <<localVars, kafkaVars>>
    /\ UNCHANGED <<now, lockVars, mgrVars, db, arrived, posted>>

\* get_city_country_code: the database runs the select, or fails; a
\* failure ends in the except Exception clause.
GetCitySelect(t) ==
    /\ reqs[t].pc = "select"
    /\ \E outcome \in DbOutcomes :
         IF outcome = "error"
         THEN /\ LogRequestCall(FALSE)
              /\ Answer(t, [Logged(reqs[t], FALSE, 500) EXCEPT
                               !.status = 500, !.dberr = TRUE], reqs)
         ELSE /\ Go(t, [reqs[t] EXCEPT !.pc = "row",
                                       !.row = db[reqs[t].city]], reqs)
              /\ UNCHANGED kafkaVars
    /\ UNCHANGED <<now, lockVars, localVars, mgrVars, db, arrived, posted>>

\* get_city_country_code: the handler has the row: 404 without one, else
\* the local set of cache.set(cache_key, db_city.country_code).
GetCityRow(t) ==
    /\ reqs[t].pc = "row"
    /\ IF NotFound(reqs[t].row)
       THEN /\ LogRequestCall(FALSE)
            /\ Answer(t, [Logged(reqs[t], FALSE, 404) EXCEPT !.status = 404],
                      reqs)
            /\ UNCHANGED localVars
            /\ UNCHANGED writtenAt
       ELSE /\ LocalSet(reqs[t].city, reqs[t].row)
            /\ writtenAt' = [writtenAt EXCEPT ![reqs[t].city] = now]
            /\ Go(t, [reqs[t] EXCEPT !.pc = "set_remote",
                                     !.value = reqs[t].row,
                                     !.wrote = TRUE], reqs)
            /\ UNCHANGED kafkaVars
    /\ UNCHANGED <<now, lockVars, redisVars, remote, tasks, done, calls, db,
                   arrived,
                   posted>>

\* get_city_country_code: the Redis set of cache.set ends in outcome, and
\* the response follows.
GetCitySet(t) ==
    /\ reqs[t].pc = "set_remote"
    /\ \E outcome \in Outcomes :
         remote' = RedisSet(reqs[t].city, reqs[t].value, outcome)
    /\ LogRequestCall(FALSE)
    /\ Answer(t, [Logged(reqs[t], FALSE, 200) EXCEPT !.status = 200], reqs)
    /\ UNCHANGED <<now, lockVars, localVars, redisVars, tasks, done, calls,
                   writtenAt,
                   db, arrived, posted>>

\* create_or_update_city(city_data): the database runs the select.
CreateOrUpdateSelect(t, k) ==
    /\ Arrive(t)
    /\ posted' = [posted EXCEPT ![k] = None]
    /\ \E r \in {[RIdle EXCEPT !.id = arrived + 1, !.op = "post", !.city = k,
                               !.code = ValueOf(t), !.row = db[k],
                               !.pc = "post_commit"]} :
         Go(t, r, Arrived(t, k, r))
    /\ UNCHANGED <<now, lockVars, localVars, mgrVars, kafkaVars, db>>

\* create_or_update_city: db.commit().  The UPDATE of a row that is gone
\* and the INSERT of a name that is there raise, and the except clause
\* answers 500; a created city is answered after the commit.
CreateOrUpdateCommit(t) ==
    /\ reqs[t].pc = "post_commit"
    /\ \E k \in {reqs[t].city} :
         IF (reqs[t].row # None) # (db[k] # None)
         THEN /\ UNCHANGED db
              /\ \E r \in {[reqs[t] EXCEPT !.status = 500]} :
                   /\ Answer(t, r, reqs)
                   /\ posted' = Posted(t, k, r, db)
         ELSE /\ db' = [db EXCEPT ![k] = reqs[t].code]
              /\ IF reqs[t].row # None
                 THEN /\ Go(t, [reqs[t] EXCEPT !.pc = "post_invalidate"], reqs)
                      /\ UNCHANGED posted
                 ELSE \E r \in {[reqs[t] EXCEPT !.status = 201]} :
                        /\ Answer(t, r, reqs)
                        /\ posted' = Posted(t, k, r, db')
    /\ UNCHANGED <<now, lockVars, localVars, mgrVars, kafkaVars, arrived>>

\* create_or_update_city: db.refresh(existing_city), which raises when the
\* row is gone, then the local delete of cache.delete.
CreateOrUpdateInvalidate(t) ==
    /\ reqs[t].pc = "post_invalidate"
    /\ \E k \in {reqs[t].city} :
         IF db[k] = None
         THEN /\ \E r \in {[reqs[t] EXCEPT !.status = 500]} :
                   /\ Answer(t, r, reqs)
                   /\ posted' = Posted(t, k, r, db)
              /\ UNCHANGED localVars
         ELSE /\ LocalDelete(k)
              /\ Go(t, [reqs[t] EXCEPT !.pc = "post_remote"], reqs)
              /\ UNCHANGED posted
    /\ UNCHANGED <<now, lockVars, mgrVars, kafkaVars, db, arrived>>

\* create_or_update_city: the Redis delete of cache.delete ends in outcome,
\* and the response follows.
CreateOrUpdateRemote(t) ==
    /\ reqs[t].pc = "post_remote"
    /\ \E outcome \in Outcomes :
         remote' = RedisDelete(reqs[t].city, outcome)
    /\ \E r \in {[reqs[t] EXCEPT !.status = 201]} :
         /\ Answer(t, r, reqs)
         /\ posted' = Posted(t, reqs[t].city, r, db)
    /\ UNCHANGED <<now, lockVars, localVars, redisVars, tasks, done, calls,
                   writtenAt,
                   kafkaVars, db, arrived>>

\* delete_city(city_name): the database runs the delete and the commit.
DeleteCityCommit(t, k) ==
    /\ Arrive(t)
    /\ posted' = [posted EXCEPT ![k] = None]
    /\ db' = [db EXCEPT ![k] = None]
    /\ \E r \in {[RIdle EXCEPT !.id = arrived + 1, !.op = "delete",
                               !.city = k, !.row = db[k],
                               !.pc = "delete_invalidate"]} :
         Go(t, r, Arrived(t, k, r))
    /\ UNCHANGED <<now, lockVars, localVars, mgrVars, kafkaVars>>

\* delete_city: 404 when result.rowcount is 0, else the local delete of
\* cache.delete.
DeleteCityInvalidate(t) ==
    /\ reqs[t].pc = "delete_invalidate"
    /\ IF reqs[t].row = None
       THEN /\ Answer(t, [reqs[t] EXCEPT !.status = 404], reqs)
            /\ UNCHANGED localVars
       ELSE /\ LocalDelete(reqs[t].city)
            /\ Go(t, [reqs[t] EXCEPT !.pc = "delete_remote"], reqs)
    /\ UNCHANGED <<now, lockVars, mgrVars, kafkaVars, db, arrived, posted>>

\* delete_city: the Redis delete of cache.delete ends in outcome, and the
\* response has the status of the route's decorator.
DeleteCityRemote(t) ==
    /\ reqs[t].pc = "delete_remote"
    /\ \E outcome \in Outcomes :
         remote' = RedisDelete(reqs[t].city, outcome)
    /\ Answer(t, [reqs[t] EXCEPT !.status = 204], reqs)
    /\ UNCHANGED <<now, lockVars, localVars, redisVars, tasks, done, calls,
                   writtenAt,
                   kafkaVars, db, arrived, posted>>

\* The lifespan of the application awaits init_cache() once, before the
\* first request.
Startup == done.op = "none" /\ MgrInitialize

\* ------------------------------------------------- LocalLRUCache._lock
\* The steps of one call are taken apart: entering `async with self._lock`,
\* the body, and leaving it. A scheduler that may switch tasks between any
\* two of them is assumed; asyncio switches only where a task suspends, so
\* its runs are among these.

\* A task in no LocalLRUCache call.
LIdle == [pc |-> "idle", op |-> "none", key |-> None, value |-> None]

\* No access yet.
NoAccess == [op |-> "none", task |-> "none", held |-> FALSE, ret |-> None]

\* The methods whose body is `async with self._lock:`.
LockedOps == {"get", "set", "delete", "clear"}

\* The frame of a step on the lock alone.
LockFrame == UNCHANGED <<now, localVars, mgrVars, kafkaVars, apiVars>>

\* Task t calls get, set, delete or clear, as a call of CacheManager does
\* while the calls begun stay within the cap; the call stands before
\* `async with self._lock`.
LockedCall(t, op, k, v) ==
    /\ ltasks[t] = LIdle
    /\ calls < MaxCalls
    /\ calls' = calls + 1
    /\ ltasks' = [ltasks EXCEPT ![t] = [pc |-> "acquire", op |-> op,
                                        key |-> k, value |-> v]]
    /\ UNCHANGED <<lock, access>>
    /\ UNCHANGED <<now, localVars, redisVars, remote, tasks, done, writtenAt,
                   kafkaVars, apiVars>>

\* An acquire that does not look at who holds the lock.
LockAcquireAnyway(t) ==
    /\ ltasks[t].pc = "acquire"
    /\ lock' = lock \cup {t}
    /\ ltasks' = [ltasks EXCEPT ![t].pc = "body"]
    /\ UNCHANGED access
    /\ LockFrame

\* self._lock.acquire(): the task goes on when nobody holds the lock, and
\* waits while somebody does.
LockAcquire(t) ==
    /\ ltasks[t].pc = "acquire"
    /\ lock = {}
    /\ lock' = lock \cup {t}
    /\ ltasks' = [ltasks EXCEPT ![t].pc = "body"]
    /\ UNCHANGED access
    /\ LockFrame

\* The body of the method, which awaits nothing.
LockBody(t) ==
    /\ ltasks[t].pc = "body"
    /\ CASE ltasks[t].op = "get" -> LocalGet(ltasks[t].key)
         [] ltasks[t].op = "set" -> LocalSet(ltasks[t].key, ltasks[t].value)
         [] ltasks[t].op = "delete" -> LocalDelete(ltasks[t].key)
         [] ltasks[t].op = "clear" -> LocalClear
    /\ ltasks' = [ltasks EXCEPT ![t].pc = "release"]
    /\ access' = [op |-> ltasks[t].op, task |-> t, held |-> t \in lock,
                  ret |-> last'.ret]
    /\ UNCHANGED <<lock, now, mgrVars, kafkaVars, apiVars>>

\* Leaving `async with self._lock`: the lock is released and the method
\* returns. CacheManager then awaits RedisCache, except after a get that
\* found the value.
LockRelease(t) ==
    /\ ltasks[t].pc = "release"
    /\ lock' = lock \ {t}
    /\ ltasks' = [ltasks EXCEPT ![t] =
                     IF ltasks[t].op = "get" /\ access.task = t
                                             /\ access.ret # None
                     THEN LIdle
                     ELSE [ltasks[t] EXCEPT !.pc = "remote"]]
    /\ UNCHANGED access
    /\ LockFrame

\* The RedisCache call CacheManager awaited has answered.
RemoteAnswered(t) ==
    /\ ltasks[t].pc = "remote"
    /\ ltasks' = [ltasks EXCEPT ![t] = LIdle]
    /\ UNCHANGED <<lock, access>>
    /\ LockFrame

\* LocalLRUCache.size(): a plain method that returns len(self.cache).
LockSize(t) ==
    /\ ltasks[t] = LIdle
    /\ access' = [op |-> "size", task |-> t, held |-> t \in lock,
                  ret |-> Size]
    /\ UNCHANGED <<lock, ltasks>>
    /\ LockFrame

\* LocalLRUCache.get_stats(): a plain method that reads the counters.
LockGetStats(t) ==
    /\ ltasks[t] = LIdle
    /\ access' = [op |-> "get_stats", task |-> t, held |-> t \in lock,
                  ret |-> LocalGetStats]
    /\ UNCHANGED <<lock, ltasks>>
    /\ LockFrame

\* ---------------------------------------------------------------- actions
\* A caller's get, while the calls counted stay within the cap.
Get(k) ==
    /\ hits + misses < MaxCount
    /\ LocalGet(k)
    /\ UNCHANGED <<now, lockVars, kafkaVars, apiVars, mgrVars>>

\* A caller's set, while the evictions counted stay within the cap.
Set(k, v) ==
    /\ LocalSet(k, v)
    /\ evictions' <= MaxCount
    /\ UNCHANGED <<now, lockVars, kafkaVars, apiVars, mgrVars>>

\* A caller's delete.
Delete(k) == LocalDelete(k) /\ UNCHANGED <<now, lockVars, kafkaVars, apiVars,
                   mgrVars>>

\* A caller's clear.
Clear == LocalClear /\ UNCHANGED <<now, lockVars, kafkaVars, apiVars, mgrVars>>

\* Time passes between two calls.
Tick ==
    /\ now < MaxTime
    /\ now' = now + 1
    /\ UNCHANGED <<localVars, mgrVars, kafkaVars, apiVars, lockVars>>

\* LocalLRUCache.__init__, RedisCache.__init__ and CacheManager.__init__,
\* the Redis server holding r.
InitWith(r) ==
    /\ max_size \in 1..MaxSize
    /\ cache = <<>>
    /\ hits = 0
    /\ misses = 0
    /\ evictions = 0
    /\ expirations = 0
    /\ now = 0
    /\ last = [op |-> "init", key |-> None, value |-> None, ret |-> None,
               stored |-> FALSE, full |-> FALSE]
    /\ touched = <<>>
    /\ setAt = [k \in Keys |-> -1]
    /\ gets = 0
    /\ fresh = <<>>
    /\ connected = FALSE
    /\ redis_client = FALSE
    /\ connection_pool = FALSE
    /\ remote = r
    /\ tasks = [t \in Tasks |-> Idle]
    /\ done = Idle
    /\ calls = 0
    /\ writtenAt = [k \in MgrKeys |->
                      IF r[k].value # None THEN r[k].timestamp ELSE -1]
    /\ KafkaInit
    /\ ApiInit(r)
    /\ lock = {}
    /\ ltasks = [t \in Tasks |-> LIdle]
    /\ access = NoAccess

\* The Redis server holds nothing.
Init == InitWith([k \in MgrKeys |-> NoEntry])

\* What the Redis server may hold when the process starts: nothing, or a
\* value an earlier run or another instance of the service has just set.
Preloaded ==
    {[k \in MgrKeys |-> NoEntry],
     [k \in MgrKeys |-> IF k = "k1" THEN [value |-> "v1", timestamp |-> 0]
                                   ELSE NoEntry]}

\* CacheManager.__init__: max_size is settings.cache_max_size, here the
\* least and the greatest size.
MgrInit == (\E r \in Preloaded : InitWith(r)) /\ max_size \in {1, MaxSize}

Next ==
    \/ \E k \in Keys : Get(k)
    \/ \E k \in Keys, v \in Values : Set(k, v)
    \/ \E k \in Keys : Delete(k)
    \/ Clear
    \/ Tick

Spec == Init /\ [][Next]_vars

\* The tasks of the service call CacheManager while time passes.
MgrNext ==
    \/ \E t \in Tasks, k \in MgrKeys : MgrGetLocal(t, k)
    \/ \E t \in Tasks : MgrGetRemote(t)
    \/ \E t \in Tasks : MgrGetFill(t)
    \/ \E t \in Tasks, k \in MgrKeys : MgrSetLocal(t, k, ValueOf(t))
    \/ \E t \in Tasks : MgrSetRemote(t)
    \/ \E t \in Tasks, k \in MgrKeys : MgrDeleteLocal(t, k)
    \/ \E t \in Tasks : MgrDeleteRemote(t)
    \/ \E t \in Tasks : MgrClearLocal(t)
    \/ \E t \in Tasks : MgrClearRemote(t)
    \/ \E t \in Tasks : MgrHealthCheck(t)
    \/ \E t \in Tasks : MgrClose(t)
    \/ MgrInitialize
    \/ Tick

SpecMgr == MgrInit /\ [][MgrNext]_vars

\* The service and its shutdown call KafkaLogger while the broker answers
\* or fails.
KafkaNext ==
    \/ \E cache_hit \in BOOLEAN : LogRequest(cache_hit)
    \/ ResetMetrics
    \/ \E s \in sends : SendTask(s)
    \/ \E op \in Awaiting : LogAwaited(op)
    \/ \E s \in sends, outcome \in SendOutcomes : SendDone(s, outcome)
    \/ KInitialize
    \/ \E outcome \in Outcomes : KInitStarted(outcome)
    \/ KInitFailed
    \/ KInitRetry
    \/ KClose
    \/ KCloseJoined
    \/ KCloseStopped
    \/ WorkerGet
    \/ \E outcome \in SendOutcomes : WorkerSent(outcome)
    \/ WorkerWake
    \/ \E taken \in BOOLEAN : WorkerCancelled(taken)

\* The logger is constructed next to a cache of the greatest size.
KafkaStart == Init /\ max_size = MaxSize

SpecKafka == KafkaStart /\ [][KafkaNext]_vars

\* The event loop runs every coroutine of the logger that can go on: the
\* send tasks, the sends under way, an initialize or a close under way and
\* the delivery worker. The calls of the service are not forced.
KafkaFairness ==
    /\ WF_vars(\E s \in sends : SendTask(s))
    /\ WF_vars(\E s \in sends, outcome \in SendOutcomes : SendDone(s, outcome))
    /\ WF_vars(\E outcome \in Outcomes : KInitStarted(outcome))
    /\ WF_vars(KInitFailed)
    /\ WF_vars(KInitRetry)
    /\ WF_vars(KCloseJoined)
    /\ WF_vars(KCloseStopped)
    /\ WF_vars(WorkerGet)
    /\ WF_vars(\E outcome \in SendOutcomes : WorkerSent(outcome))
    /\ WF_vars(WorkerWake)
    /\ WF_vars(\E taken \in BOOLEAN : WorkerCancelled(taken))

SpecKafkaFair == SpecKafka /\ KafkaFairness

\* As KafkaNext, with callers that call initialize whether a delivery
\* worker runs or not.
KafkaCallsNext ==
    \/ KafkaNext
    \/ KInitializeAgain
    \/ \E outcome \in Outcomes : KInitStartedAgain(outcome)
    \/ \E outcome \in SendOutcomes : KInitPinged(outcome)

SpecKafkaCalls == KafkaStart /\ [][KafkaCallsNext]_vars

\* The service answers requests for cities while time passes.
ApiNext ==
    \/ Startup
    \/ \E t \in Tasks, k \in MgrKeys : GetCityLocal(t, k)
    \/ \E t \in Tasks : GetCityRemote(t)
    \/ \E t \in Tasks : GetCitySelect(t)
    \/ \E t \in Tasks : GetCityRow(t)
    \/ \E t \in Tasks : GetCitySet(t)
    \/ \E t \in Tasks, k \in MgrKeys : CreateOrUpdateSelect(t, k)
    \/ \E t \in Tasks : CreateOrUpdateCommit(t)
    \/ \E t \in Tasks : CreateOrUpdateInvalidate(t)
    \/ \E t \in Tasks : CreateOrUpdateRemote(t)
    \/ \E t \in Tasks, k \in MgrKeys : DeleteCityCommit(t, k)
    \/ \E t \in Tasks : DeleteCityInvalidate(t)
    \/ \E t \in Tasks : DeleteCityRemote(t)
    \/ Tick

SpecApi == MgrInit /\ [][ApiNext]_vars

\* Tasks call the methods of one LocalLRUCache.
LockNext ==
    \/ \E t \in Tasks, k \in MgrKeys : LockedCall(t, "get", k, None)
    \/ \E t \in Tasks, k \in MgrKeys : LockedCall(t, "set", k, ValueOf(t))
    \/ \E t \in Tasks, k \in MgrKeys : LockedCall(t, "delete", k, None)
    \/ \E t \in Tasks : LockedCall(t, "clear", None, None)
    \/ \E t \in Tasks : LockAcquire(t)
    \/ \E t \in Tasks : LockBody(t)
    \/ \E t \in Tasks : LockRelease(t)
    \/ \E t \in Tasks : RemoteAnswered(t)
    \/ \E t \in Tasks : LockSize(t)
    \/ \E t \in Tasks : LockGetStats(t)

SpecLock == Init /\ [][LockNext]_vars

\* The event loop runs every task that can go on.
LockFairness ==
    /\ \A t \in Tasks : WF_vars(LockAcquire(t))
    /\ \A t \in Tasks : WF_vars(LockBody(t))
    /\ \A t \in Tasks : WF_vars(LockRelease(t))

SpecLockFair == SpecLock /\ LockFairness

\* ------------------------------------------------------------ properties
Counters == <<hits, misses, evictions, expirations>>

\* The step is a completed get(k), set(k, v) or delete(k) of the local cache
\* (the call recorded in last' is compared first, which decides most steps).
GetStep(k) == last'.op = "get" /\ last'.key = k /\ LocalGet(k)
SetStep(k, v) ==
    last'.op = "set" /\ last'.key = k /\ last'.value = v /\ LocalSet(k, v)
DeleteStep(k) == last'.op = "delete" /\ last'.key = k /\ LocalDelete(k)

\* The key touched least recently among the keys stored.
LeastRecentlyTouched == Head(SelectKeys(touched, KeySet(cache)))

\* The last n elements of s.
LastN(s, n) == SubSeq(s, Len(s) - n + 1, Len(s))

\* C1: in every reachable state the number of stored entries is between 0 and
\* max_size, and none of the counters hits, misses, evictions, expirations is
\* negative.
C1_SizeWithinMaxSize ==
    /\ max_size >= 1
    /\ Len(cache) >= 0 /\ Len(cache) <= max_size
    /\ hits >= 0 /\ misses >= 0 /\ evictions >= 0 /\ expirations >= 0

\* A full cache after evictions, hits, misses and expirations.
C1_Witness ==
    /\ Len(cache) = max_size
    /\ evictions > 0 /\ hits > 0 /\ misses > 0 /\ expirations > 0

\* After more than max_size sets of distinct keys and nothing else since
\* construction or clear, the keys stored are the last max_size keys set, in
\* that order, and each set beyond max_size evicted one entry.
OnlyLastKeysStay ==
    (fresh # Broken /\ Len(fresh) > max_size) =>
        /\ KeysOf(cache) = LastN(fresh, max_size)
        /\ evictions = Len(fresh) - max_size

\* C2: a set of a key that is not stored, while max_size entries are stored,
\* removes exactly one entry, the one touched (set, or read with success)
\* least recently, and adds 1 to evictions; in particular max_size + 1 sets of
\* distinct keys with no read leave the last max_size keys.
C2_EvictsLeastRecentlyTouched ==
    [][/\ \A k \in Keys, v \in Values :
            (SetStep(k, v) /\ ~Contains(cache, k) /\ Len(cache) = max_size) =>
                /\ SelectKeys(touched, KeySet(cache)) # <<>>
                /\ KeySet(cache') =
                       (KeySet(cache) \ {LeastRecentlyTouched}) \cup {k}
                /\ \A j \in KeySet(cache) \ {LeastRecentlyTouched} :
                       Item(cache', j) = Item(cache, j)
                /\ Len(cache') = max_size
                /\ evictions' = evictions + 1
       /\ OnlyLastKeysStay']_vars

\* max_size + 1 = 3 distinct keys have been set and nothing else was called.
C2_Witness ==
    /\ max_size = 2
    /\ fresh # Broken /\ Len(fresh) = 3
    /\ last.op = "set" /\ ~last.stored /\ last.full
    /\ evictions = 1

\* C3: a get of a stored key returns the stored value when the time since the
\* key's last set is at most ttl, and then leaves the entry's timestamp as it
\* was; when the time is greater it returns None, removes the entry and adds
\* 1 to misses and to expirations.
C3_GetHonoursTtl ==
    [][\A k \in Keys :
          (GetStep(k) /\ Contains(cache, k)) =>
             IF now - setAt[k] <= TTL
             THEN /\ last'.ret = Item(cache, k).value
                  /\ last'.ret # None
                  /\ Contains(cache', k)
                  /\ Item(cache', k).timestamp = Item(cache, k).timestamp
                  /\ Len(cache') = Len(cache)
             ELSE /\ last'.ret = None
                  /\ ~Contains(cache', k)
                  /\ Len(cache') = Len(cache) - 1
                  /\ misses' = misses + 1
                  /\ expirations' = expirations + 1]_vars

\* The one miss counted was the get of an entry older than ttl, after a hit.
C3_Witness ==
    /\ last.op = "get" /\ last.stored /\ last.ret = None
    /\ expirations = 1 /\ misses = 1 /\ hits = 1

\* The step is task t's CacheManager.get(k) up to its local get.
MgrGetLocalStep(t, k) ==
    /\ tasks[t].pc = "idle" /\ calls' = calls + 1
    /\ last'.op = "get" /\ last'.key = k
    /\ MgrGetLocal(t, k)

C5_DeleteRemovesOnlyTheKey ==
    [][\A k \in Keys :
          /\ DeleteStep(k) =>
               /\ last'.ret = IF Contains(cache, k) THEN True ELSE False
               /\ KeysOf(cache') = SelectKeys(KeysOf(cache), Keys \ {k})
               /\ \A j \in KeySet(cache') : Item(cache', j) = Item(cache, j)
               /\ Counters' = Counters
               /\ ~Contains(cache', k)
          /\ (~Contains(cache, k) /\ Contains(cache', k)) =>
               \E v \in Values : SetStep(k, v)
          /\ (GetStep(k) /\ ~Contains(cache, k)) =>
               (last'.ret = None /\ ~Contains(cache', k))]_vars

\* A stored key has been deleted while another entry stayed.
C5_Witness ==
    /\ last.op = "delete" /\ last.stored /\ last.ret = True
    /\ cache # <<>>
    /\ hits > 0 /\ evictions > 0

\* C6: after clear() the size is 0, the four counters are 0 and the hit rate
\* reported is 0.
C6_ClearResets ==
    last.op = "clear" =>
        /\ Size = 0
        /\ hits = 0 /\ misses = 0 /\ evictions = 0 /\ expirations = 0
        /\ HitRate(hits, misses)[1] = 0

\* clear() has been called on a full cache.
C6_Witness == last.op = "clear" /\ last.full /\ now > 0

\* C7: hits + misses is the number of get calls completed since construction
\* or the last clear; each get adds 1 to hits and nothing to misses when it
\* returns a value, 1 to misses and nothing to hits when it returns None; set
\* and delete change neither.
C7_EveryGetCountsOnce ==
    [][/\ hits' + misses' = gets'
       /\ \A k \in Keys :
            /\ GetStep(k) =>
                 IF last'.ret # None
                 THEN hits' = hits + 1 /\ misses' = misses
                 ELSE misses' = misses + 1 /\ hits' = hits
            /\ (DeleteStep(k) \/ \E v \in Values : SetStep(k, v)) =>
                 (hits' = hits /\ misses' = misses)]_vars

\* Two gets have completed: a hit and the miss of an expired entry.
C7_Witness ==
    /\ gets = 2 /\ hits = 1 /\ misses = 1 /\ expirations = 1

\* C8: evictions grows only in a set of a key that is not stored while
\* max_size entries are stored, and only such a set removes a key other
\* than the one named; a set of a stored key keeps the keys stored, gives the
\* key the new value and the timestamp now, makes it most recently used and
\* leaves the other entries and their order; get and delete remove no key
\* other than the one named.
C8_EvictionOnlyOnInsertAtCapacity ==
    [][/\ evictions' > evictions =>
            \E k \in Keys, v \in Values :
               SetStep(k, v) /\ ~Contains(cache, k) /\ Len(cache) = max_size
       /\ \A k \in Keys, v \in Values :
            SetStep(k, v) =>
               /\ (KeySet(cache) \ KeySet(cache') # {}) =>
                      (~Contains(cache, k) /\ Len(cache) = max_size)
               /\ Contains(cache, k) =>
                      /\ evictions' = evictions
                      /\ Len(cache') = Len(cache)
                      /\ cache'[Len(cache')] = NewItem(k, v, now)
                      /\ SubSeq(cache', 1, Len(cache') - 1) =
                            SelectSeq(cache, LAMBDA it : it.key # k)
       /\ \A k \in Keys :
            (GetStep(k) \/ DeleteStep(k)) =>
               KeySet(cache) \ KeySet(cache') \subseteq {k}]_vars

\* A stored key has been set again while the cache was full, at a later time
\* than its first set, and nothing was ever evicted.
C8_Witness ==
    /\ last.op = "set" /\ last.stored /\ last.full
    /\ max_size = 2 /\ evictions = 0
    /\ now > 0 /\ Item(cache, last.key).timestamp = now

\* The CacheManager calls in flight and the one completed last.
CallsSeen == {tasks[t] : t \in Tasks} \cup {done}

\* C9: every CacheManager.get consults the local tier first, and when the
\* local tier held a live entry for the key it returned that value at once,
\* with no request made to the Redis server.
C9_LocalTierFirst ==
    \A c \in CallsSeen :
       c.op = "get" =>
          /\ c.trace # <<>> /\ c.trace[1] = "L"
          /\ c.live # None =>
                /\ c.pc = "idle" /\ c.ret = c.live
                /\ c.trace = <<"L">> /\ c.outcome = "none"

\* A get was answered by the local tier while the Redis server, connected,
\* held the value as well.
C9_Witness ==
    /\ done.op = "get" /\ done.live # None
    /\ RedisUsable /\ ServerGet(done.key) = done.ret

\* C10: in a CacheManager.get that missed the local tier, when the Redis
\* server is asked and answers with a value, that value goes on to be set in
\* the local tier under the same key and returned; when RedisCache is not
\* connected, the request fails or the server has no value, get returns None
\* and the local tier stays as it was; no step of a get writes to the server.
C10_RemoteHitFillsLocalOnly ==
    [][\A t \in Tasks :
          /\ (tasks[t].pc = "get_remote" /\ tasks'[t].pc # "get_remote") =>
                /\ remote' = remote /\ cache' = cache
                /\ IF RedisUsable /\ ServerGet(tasks[t].key) # None
                      /\ tasks'[t].outcome = "ok"
                   THEN /\ tasks'[t].pc = "get_fill"
                        /\ tasks'[t].key = tasks[t].key
                        /\ tasks'[t].value = ServerGet(tasks[t].key)
                   ELSE /\ tasks'[t] = Idle
                        /\ done'.op = "get" /\ done'.key = tasks[t].key
                        /\ done'.ret = None
          /\ (tasks[t].pc = "get_fill" /\ tasks'[t].pc # "get_fill") =>
                /\ remote' = remote
                /\ Contains(cache', tasks[t].key)
                /\ Item(cache', tasks[t].key) =
                      NewItem(tasks[t].key, tasks[t].value, now)
                /\ tasks'[t] = Idle
                /\ done'.op = "get" /\ done'.key = tasks[t].key
                /\ done'.ret = tasks[t].value
          /\ (\E k \in MgrKeys : MgrGetLocalStep(t, k)) => remote' = remote]_vars

\* A get missed the local tier, was answered by the Redis server and set the
\* value in the local tier.
C10_Witness ==
    /\ done.op = "get" /\ done.live = None
    /\ done.trace = <<"L", "R", "L">> /\ done.outcome = "ok"
    /\ done.ret \in Values
    /\ last.op = "set" /\ last.key = done.key /\ last.value = done.ret

\* The pcs of a CacheManager.set, delete or clear whose local part is done.
RemotePcs == {"set_remote", "delete_remote", "clear_remote"}

\* C11: CacheManager.set, delete and clear apply the operation to the local
\* tier before any request goes to the Redis server; whether the request then
\* succeeds, fails or is not made, the call returns without an exception and
\* the local tier stays as the local part left it.
C11_LocalFirstRemoteBestEffort ==
    [][\A t \in Tasks :
          /\ (tasks[t].pc = "idle" /\ tasks'[t].pc \in RemotePcs) =>
                /\ remote' = remote
                /\ tasks'[t].trace = <<"L">>
                /\ tasks'[t].op = "set" =>
                      /\ Contains(cache', tasks'[t].key)
                      /\ Item(cache', tasks'[t].key).value = tasks'[t].value
                /\ tasks'[t].op = "delete" => ~Contains(cache', tasks'[t].key)
                /\ tasks'[t].op = "clear" => cache' = <<>>
          /\ (tasks[t].pc \in RemotePcs /\ tasks'[t].pc # tasks[t].pc) =>
                /\ cache' = cache /\ Counters' = Counters
                /\ tasks'[t] = Idle
                /\ done'.op = tasks[t].op /\ done'.key = tasks[t].key
                /\ done'.exc = None /\ done'.ret = None]_vars

\* A delete removed the key from the local tier and its request to the Redis
\* server failed.
C11_Witness ==
    /\ done.op = "delete" /\ done.outcome = "error"
    /\ last.op = "delete" /\ last.key = done.key /\ last.ret = True
    /\ ~Contains(cache, done.key)

\* C12: a CacheManager.get(key) begun after CacheManager.delete(key) has
\* completed, with no set(key) since, returns None -- whether the request of
\* the delete to the Redis server succeeded, failed or was not made.
C12_DeleteThenGetAbsent ==
    (done.op = "get" /\ done.ryd) => done.ret = None

\* The step is the remote part of task t's CacheManager call.
RemoteStep(t) ==
    /\ tasks[t].pc \in RemotePcs \cup {"get_remote"}
    /\ tasks'[t].pc # tasks[t].pc

\* C13: while RedisCache is not connected no CacheManager call ends with an
\* exception or makes a request to the Redis server; a get returns what the
\* local tier alone holds for the key (its live value, else None) and
\* health_check returns True.
C13_DisconnectedIsLocalOnly ==
    [][~connected =>
         /\ \A t \in Tasks :
               /\ (\E k \in MgrKeys : MgrGetLocalStep(t, k)) =>
                     IF tasks'[t] = Idle
                     THEN done'.op = "get" /\ done'.ret = done'.live
                          /\ done'.exc = None
                     ELSE tasks'[t].live = None
               /\ RemoteStep(t) =>
                     /\ tasks'[t] = Idle
                     /\ done'.op = tasks[t].op /\ done'.exc = None
                     /\ done'.outcome = "skipped"
                     /\ remote' = remote
                     /\ tasks[t].pc = "get_remote" =>
                           /\ done'.ret = None /\ done'.ret = tasks[t].live
                           /\ done'.trace = <<"L">>
                           /\ cache' = cache
         /\ (calls' = calls + 1 /\ tasks' = tasks
               /\ done'.op = "health_check") =>
               /\ done'.ret = True /\ done'.exc = None
               /\ done'.trace = <<>> /\ done'.rret = False
               /\ remote' = remote]_vars

\* The second call, a get, was answered from the local tier alone, RedisCache
\* not connected, while the Redis server holds a value for the key.
C13_Witness ==
    /\ ~connected /\ calls = 2
    /\ done.op = "get" /\ done.outcome = "skipped" /\ done.ret = None
    /\ ServerGet(done.key) # None

\* C14: while RedisCache is not connected, what CacheManager.get_stats()
\* returns reports the remote tier as not healthy and the coordinator as
\* healthy (under the names get_detailed_status gives the two: the status
\* of redis_cache and overall_status).
C14_StatsReportRemoteUnhealthy ==
    ~connected =>
        /\ "redis_cache" \in DOMAIN MgrGetStats
        /\ MgrGetStats.redis_cache.status \in {"disconnected", "error"}
        /\ "overall_status" \in DOMAIN MgrGetStats
        /\ MgrGetStats.overall_status = "healthy"

\* The neutral result of the RedisCache method a CacheManager call op uses:
\* None of get, False of set, delete, clear and health_check.
Neutral(op) == IF op = "get" THEN None ELSE False

\* The record of task t's call after the step.
After(t) == IF tasks'[t] = Idle THEN done' ELSE tasks'[t]

\* C15: no RedisCache method ends with an exception.  While the guard of
\* RedisCache does not pass (not connected, or no client) get returns None and
\* set, delete, clear and health_check return False with no request to the
\* Redis server; a request that fails gives the same result; connect and
\* disconnect return whether their requests fail or not, a failed connect
\* leaving connected False.
C15_RedisCacheNeverRaises ==
    [][/\ \A t \in Tasks :
            RemoteStep(t) =>
               /\ After(t).exc = None
               /\ After(t).op = tasks[t].op
               /\ ~RedisUsable =>
                     /\ After(t).rret = Neutral(tasks[t].op)
                     /\ After(t).outcome = "skipped"
                     /\ After(t).trace = tasks[t].trace
                     /\ remote' = remote
               /\ After(t).outcome = "error" =>
                     /\ After(t).rret = Neutral(tasks[t].op)
                     /\ remote' = remote
       /\ (calls' = calls + 1 /\ tasks' = tasks
             /\ done'.op = "health_check") =>
               /\ done'.exc = None
               /\ ~RedisUsable =>
                     /\ done'.rret = False /\ done'.outcome = "skipped"
                     /\ done'.trace = <<>> /\ remote' = remote
               /\ done'.outcome = "error" => done'.rret = False
       /\ (calls' = calls + 1 /\ tasks' = tasks /\ done'.op = "close") =>
               /\ done'.exc = None
               /\ ~redis_client => done'.trace = <<"L">>
       /\ (redisVars' # redisVars /\ done'.op = "initialize") =>
               /\ done'.exc = None
               /\ done'.outcome = "error" => ~connected']_vars

\* The request of a set to the Redis server failed while RedisCache was
\* connected, and RedisCache.set returned False.
C15_Witness ==
    /\ done.op = "set" /\ done.outcome = "error" /\ done.rret = False
    /\ done.trace = <<"L", "R">> /\ RedisUsable


\* The calls that have run _send_message when they complete.
Senders == {"_send_message"} \cup Awaiting

\* C16: recording telemetry never fails its caller: in every state of the
\* emitter (connected, not connected, queue full) a completed log_request,
\* log_error, _send_system_event or _send_message has not raised, and the
\* _send_message it ran has resolved to True or False.
C16_TelemetryNeverRaises ==
    /\ kdone.exc = None
    /\ kdone.op \in Senders => kdone.sent \in {True, False}

\* The step has offered ev to a full queue and has dropped it: the queue
\* is as it was, and the _send_message that offered ev has returned False
\* in the step, with no send of ev begun.
Dropped(ev) ==
    /\ message_queue' = message_queue
    /\ delivered' = delivered
    /\ \A s \in sends' : s.ev # ev
    /\ kdone'.ev = ev /\ kdone'.sent = False /\ kdone'.exc = None

\* C17: the queue never holds more than its capacity; while the logger is
\* not connected and the queue is full, each event offered (by the task of
\* a log_request, by log_error or _send_system_event, by initialize) is
\* dropped, the queue keeps its events in their order, and the call that
\* offered it goes on in the same step.
C17_FullQueueDropsNewest ==
    [][/\ Len(message_queue') <= MaxQueue
       /\ (QueueFull(message_queue) /\ ~KafkaUsable) =>
            /\ \A s \in sends \ sends' : s.pc = "created" => Dropped(s.ev)
            /\ (kcalls' = kcalls + 1 /\ kdone'.op \in Awaiting
                    /\ kdone'.ev = kcalls') => Dropped(kcalls')
            /\ (init.pc = "start" /\ init'.pc = "idle") => Dropped(Ping)]_vars

\* log_error has offered an event to the full queue of a logger that was
\* never connected.
C17_Witness ==
    /\ kdone.op = "log_error" /\ kdone.sent = False
    /\ Len(message_queue) = MaxQueue
    /\ drops = 1
    /\ queue_task = NoTask

\* KafkaLogger.get_metrics(), without the settings, cache_hit_percentage
\* and uptime_seconds.
KafkaGetMetrics ==
    [connection |-> [status |-> IF kconnected THEN "connected"
                                              ELSE "disconnected",
                     healthy |-> KafkaUsable],
     performance |-> [total_requests |-> total_requests,
                      cache_hits |-> cache_hits,
                      cache_misses |-> cache_misses],
     queue |-> [queue_size |-> Len(message_queue),
                max_queue_size |-> MaxQueue,
                queue_task_running |-> Running(queue_task)]]

\* The counts KafkaLogger keeps or reports: its integer attributes and
\* the integers of get_metrics().
KafkaCounters ==
    {total_requests, cache_hits, cache_misses, current_retries,
     KafkaGetMetrics.queue.queue_size, KafkaGetMetrics.queue.max_queue_size}

\* C18: the logger keeps a drop counter that always equals the number of
\* events dropped on a full queue; here, the weaker statement that in
\* every state some count the logger keeps or reports equals that number.
C18_DropCounterCountsDrops == \E c \in KafkaCounters : c = drops

\* C19: initialize makes at most max_retries attempts and has paused once
\* before each attempt but the first; when it returns after a failed
\* attempt, it has made max_retries attempts with a pause between them
\* and no pause after the last, it has not raised, connected is False,
\* producer is None and no delivery worker has been started.
C19_InitializeGivesUpDegraded ==
    [][/\ init'.attempt <= max_retries
       /\ init'.pc = "start" => init'.sleeps = init'.attempt - 1
       /\ (init.pc \in {"stop", "sleep"} /\ init'.pc = "idle") =>
            /\ init.attempt = max_retries
            /\ kdone' = [KIdle EXCEPT !.op = "initialize",
                                      !.attempts = max_retries,
                                      !.sleeps = max_retries - 1]
            /\ ~kconnected' /\ ~producer'
            /\ queue_task' = queue_task /\ ~Running(queue_task)]_vars

\* initialize has returned after max_retries failed attempts.
C19_Witness ==
    /\ init.pc = "idle"
    /\ kdone.op = "initialize" /\ kdone.attempts = max_retries
    /\ kdone.sleeps = max_retries - 1 /\ kdone.exc = None
    /\ ~kconnected /\ ~producer
    /\ queue_task = NoTask

\* The delivery worker was never created, or its task has ended.
Exited(task) == task.state \in {"none", "done"}

\* q is the head of r.
IsPrefix(q, r) == Len(q) <= Len(r) /\ SubSeq(r, 1, Len(q)) = q

\* C20: close goes on to its end: while it awaits the worker, the worker
\* is cancelled and has exited or can only exit. Once close has returned,
\* and until initialize is called again, the worker has exited, connected
\* is False, producer is None, no event leaves the queue and the broker
\* takes no event the queue holds.
C20_CloseStopsDelivery ==
    [][/\ closing' = "await_task" =>
            queue_task'.cancel /\ queue_task'.state # "none"
       /\ init'.closed =>
            Exited(queue_task') /\ ~kconnected' /\ ~producer'
       /\ (init.closed /\ init'.closed) =>
            /\ IsPrefix(message_queue, message_queue')
            /\ \A i \in Len(delivered) + 1..Len(delivered') :
                    delivered'[i] \notin Range(message_queue)]_vars

\* close has returned, the worker it cancelled has exited and the queue
\* still holds events.
C20_Witness ==
    /\ init.closed /\ kdone.op = "close"
    /\ queue_task.state = "done"
    /\ message_queue # <<>>

\* C21: close releases the broker connection: once close has returned,
\* every producer that was started has been stopped, whatever connected
\* was when close was called.
C21_CloseStopsEveryProducer == init.closed => init.open = 0

\* C22: delivery is at most once: the send of an event a caller recorded
\* begins at most once, and the broker takes the event at most once,
\* whatever failures, timeouts, requeues, disconnects and closes there are.
C22_AtMostOnce ==
    /\ \A e \in BagToSet(attempted) : CopiesIn(e, attempted) = 1
    /\ \A i, j \in 1..Len(delivered) : delivered[i] = delivered[j] => i = j
    /\ Range(delivered) \subseteq BagToSet(attempted)

\* close has returned after the send of a queued event has failed: the
\* broker has not taken the event and no place holds it.
C22_Witness ==
    /\ init.closed
    /\ \E e \in BagToSet(attempted) :
            /\ e \notin Range(delivered) \cup Range(message_queue)
            /\ \A s \in sends : s.ev # e

\* The step is the log_request call numbered kcalls'.
LogRequestStep ==
    kcalls' = kcalls + 1 /\ kdone'.op = "log_request" /\ kdone'.ev = kcalls'

\* C23: total_requests = cache_hits + cache_misses in every state; each
\* log_request adds 1 to total_requests and 1 to cache_hits or to
\* cache_misses as its cache_hit argument says, whatever becomes of its
\* event, and no other step but reset_metrics changes a counter.
C23_CountersAddUp ==
    [][/\ total_requests' = cache_hits' + cache_misses'
       /\ LogRequestStep =>
            /\ total_requests' = total_requests + 1
            /\ kdone'.hit = True =>
                    cache_hits' = cache_hits + 1 /\ cache_misses' = cache_misses
            /\ kdone'.hit = False =>
                    cache_hits' = cache_hits /\ cache_misses' = cache_misses + 1
       /\ ~LogRequestStep =>
            \/ UNCHANGED metricVars
            \/ kdone'.op = "reset_metrics" /\ total_requests' = 0]_vars

\* Two log_request calls, a hit and a miss, have been counted, and the
\* event of one of them has been dropped on the full queue.
C23_Witness ==
    /\ cache_hits = 1 /\ cache_misses = 1 /\ total_requests = 2
    /\ drops > 0

\* C24 as claimed: the hit rate get_stats reports is the ratio
\* hits / (hits + misses), and 0 when no get has occurred.
C24_HitRateIsRatio ==
    IF hits + misses = 0
    THEN HitRateReported = 0
    ELSE HitRateReported * (hits + misses) = 100 * hits

\* C24: the hit rate get_stats reports is the percentage
\* 100 * hits / (hits + misses) to the nearest hundredth, between 0 and
\* 100, and 0 when no get has occurred.
C24_HitRateIsPercentage ==
    /\ HitRateReported \in 0..10000
    /\ IF hits + misses = 0
       THEN HitRateReported = 0
       ELSE LET diff == HitRateReported * (hits + misses) - 10000 * hits
            IN  2 * diff <= hits + misses /\ -2 * diff <= hits + misses

\* A hit and a miss have been counted: the rate reported is 50.0.
C24_Witness == hits = 1 /\ misses = 1 /\ HitRateReported = 5000

\* C28: when the broker is reachable, initialize ends on its first
\* attempt: once producer.start() of the first attempt has succeeded, the
\* call returns with connected True, the producer kept and the one
\* delivery worker created.
C28_ReachableBrokerConnects ==
    [][(init.pc = "start" /\ init.attempt = 1 /\ init'.started) =>
            /\ init'.pc = "idle"
            /\ kconnected' /\ producer'
            /\ queue_task' = NewTask]_vars

\* The logger has been connected, its worker runs, and a failed send has
\* cleared connected.
Lost ==
    /\ Running(queue_task) /\ ~queue_task.cancel
    /\ closing = "idle"
    /\ ~kconnected

\* C29: a logger that was connected and that a failure has disconnected
\* attempts to connect again: it comes to an attempt of initialize or to
\* connected True.
C29_ReconnectsAfterFailure == Lost ~> (init.pc # "idle" \/ kconnected)

\* A send to the broker ends in the step, in a caller's _send_message or
\* in the worker's; kdone' is its record.
AttemptEnds ==
    \/ \E s \in sends \ sends' : s.pc = "sending"
    \/ queue_task.state = "send" /\ queue_task'.state = "get"

C25_LookupReturnsPostedCode ==
    (rdone.op = "get" /\ rdone.expect # None /\ ~rdone.dberr) =>
        (rdone.status = 200 /\ rdone.value = rdone.expect)

\* A request is answered in the step; rdone' is its record.
Answered == rdone'.id # rdone.id

C27_DeleteResponds200 ==
    (rdone.op = "delete" /\ rdone.row # None) => rdone.status = 200

\* The worker has put event e back at the tail of the queue and sleeps.
Requeued(e) ==
    /\ queue_task.state = "sleep"
    /\ message_queue # <<>>
    /\ message_queue[Len(message_queue)] = e

\* C31: an event the worker has put back does not stay queued for ever
\* while the worker runs: it leaves the queue, delivered or dropped.
C31_RequeuesAreBounded ==
    \A e \in 1..MaxKafkaCalls :
        Requeued(e) ~> (e \notin Range(message_queue) \/ ~Running(queue_task))

\* The delivery-worker tasks that exist: the one _queue_task holds, while
\* it has not exited, and the ones it held before.
WorkerTasks == queue_task.orphans + IF Running(queue_task) THEN 1 ELSE 0

\* C32: at most one delivery-worker task exists at any time.
C32_AtMostOneWorker == WorkerTasks <= 1

\* The sends to the broker under way: those of callers' _send_message
\* calls, and the worker's.
InFlight ==
    Cardinality({s \in sends : s.pc = "sending"})
        + IF queue_task.state = "send" THEN 1 ELSE 0

Place(q, e) ==
    IF e \in Range(q) THEN CHOOSE i \in 1..Len(q) : q[i] = e ELSE 0

\* C34: the events the queue has taken are delivered in the order in
\* which it took them.
C34_DeliveredInAcceptedOrder ==
    \A i, j \in 1..Len(delivered) :
        (/\ i < j
         /\ delivered[i] \in Range(accepted)
         /\ delivered[j] \in Range(accepted)) =>
            Place(accepted, delivered[i]) < Place(accepted, delivered[j])

\* C40: when CacheManager.close, and with it RedisCache.disconnect, has
\* returned, connected is False and the client and the pool are None.
C40_DisconnectResetsAll ==
    done.op = "close" => (~connected /\ ~redis_client /\ ~connection_pool)

\* CacheManager.initialize, and with it RedisCache.connect, runs in the step.
ConnectStep ==
    /\ calls = 0 /\ calls' = calls /\ tasks' = tasks
    /\ done'.op = "initialize"

\* CacheManager.health_check runs in the step.
HealthCheckStep ==
    /\ calls' = calls + 1 /\ tasks' = tasks
    /\ done'.op = "health_check"

\* C36: connected is False after construction; connect leaves it True when
\* its ping is answered and False otherwise, and nothing else makes it
\* True; the remote step of a get, set, delete or clear never changes it,
\* whatever the request ends in; a health_check whose ping fails sets it
\* False, and while it is False every remote step is skipped, the server
\* not being asked.
C36_ConnectedOnlyByConnect ==
    /\ ~connected
    /\ [][/\ ConnectStep => (connected' <=> done'.outcome = "ok")
          /\ (~connected /\ connected') => ConnectStep
          /\ \A t \in Tasks :
                (RemoteStep(t) /\ tasks[t].op \in {"get", "set", "delete", "clear"})
                    => /\ connected' = connected
                       /\ ~connected => /\ done'.outcome = "skipped"
                                        /\ done'.trace = <<"L">>
                                        /\ remote' = remote
          /\ (HealthCheckStep /\ done'.outcome = "error") => ~connected'
         ]_vars

\* A health_check has set connected False, the client still there, and the
\* get that followed was answered by the local tier alone while the server
\* holds a value for the key.
C36_Witness ==
    /\ ~connected /\ redis_client
    /\ done.op = "get" /\ done.outcome = "skipped" /\ done.trace = <<"L">>
    /\ ServerGet(done.key) # None

\* No call of CacheManager is under way.
Quiet == \A t \in Tasks : tasks[t].pc = "idle"

\* C38: when a get that ran together with a delete of its key has
\* completed last, the delete has completed too and no set of the key has
\* begun, the local tier holds no entry for the key.
C38_GetDoesNotUndoDelete ==
    (Quiet /\ done.op = "get" /\ done.deleted) => ~Contains(cache, done.key)

\* C39: when two sets of a key that ran together have completed, the
\* remote write of each having succeeded, the local tier and the Redis
\* server hold the same value for the key.
C39_ConcurrentSetsAgree ==
    (/\ Quiet
     /\ done.op = "set" /\ done.outcome = "ok" /\ done.peer = "ok"
     /\ Contains(cache, done.key)) =>
        Item(cache, done.key).value = remote[done.key].value

\* Task t's CacheManager.get returns in the step; done' is its record.
GetReturns(t) ==
    /\ tasks'[t] = Idle /\ done'.op = "get"
    /\ \/ tasks[t].op = "get"
       \/ tasks[t] = Idle /\ calls' = calls + 1

\* C37: a CacheManager.get that returns a value for a key returns at most
\* ttl after the most recent CacheManager.set of the key.
C37_ValueLivesOneTtl ==
    [][\A t \in Tasks :
          (GetReturns(t) /\ done'.ret # None) =>
              /\ writtenAt[done'.key] >= 0
              /\ now - writtenAt[done'.key] <= TTL]_vars

\* C35 as stated: every access to the cache's state, size() and get_stats()
\* included, is made by a task that holds the lock.
C35_EveryAccessHoldsLock == access.op # "none" => access.held

\* C35: get, set, delete and clear touch the cache's state only while the
\* task holds the lock, size() and get_stats() read it without taking the
\* lock, at most one task holds the lock, a holder is in the body or about
\* to release and awaits neither the lock nor RedisCache, and every holder
\* releases.
C35_LockedOpsHoldLock ==
    /\ [](/\ access.op \in LockedOps => access.held
          /\ access.op \in {"size", "get_stats"} => ~access.held
          /\ Cardinality(lock) <= 1
          /\ \A t \in lock : ltasks[t].pc \in {"body", "release"}
          /\ \A t \in Tasks : ltasks[t].pc \in {"body", "release"} => t \in lock)
    /\ \A t \in Tasks : (t \in lock) ~> (t \notin lock)

\* A task has run a body under the lock and still holds it while the other
\* task waits for the lock.
C35_Witness ==
    \E t \in Tasks, u \in Tasks :
        /\ lock = {t} /\ ltasks[t].pc = "release"
        /\ access.task = t /\ access.held /\ access.op = "set"
        /\ ltasks[u].pc = "acquire"

====
